---- MODULE Spec2Model ----
(***************************************************************************)
(* Sample ONNX Runtime execution-provider plugin (avikde/onnx-plugin).     *)
(* The plugin is purely reactive: every entry point is a callback the host *)
(* invokes.  The model keeps, per component, the arguments of the call in  *)
(* flight, the position inside the callback, the host objects the callback *)
(* touches through the host API table, and the status it returns.          *)
(***************************************************************************)
EXTENDS Integers, Sequences, FiniteSets, TLC

\* ------------------------------------------------------------------ bounds
MaxNodes == 4
MaxBatch == 1
MaxUnits == 3
MaxElems == 2
MaxDevices == 3
MaxCapacity == 3

\* --------------------------------------------------------------- universes
\* Operator types the host may report for a node.
OpTypes == {"Add", "Sub", "Mul", "Div"}
\* A null OrtNode pointer in the node array, and a null op_type string.
NullNode == "NULL_NODE"
NullOpType == "NULL_OP_TYPE"

RECURSIVE SeqsUpTo(_, _)
SeqsUpTo(S, n) ==
    IF n = 0 THEN {<<>>}
    ELSE LET shorter == SeqsUpTo(S, n - 1)
         IN  shorter \cup {Append(s, x) : s \in {t \in shorter : Len(t) = n - 1}, x \in S}

\* The node lists the host can hand to a capability query.
Graphs == SeqsUpTo(OpTypes \cup {NullNode}, MaxNodes)

\* Tensor element values (floats in the code; small integers add and
\* multiply exactly in float).
Vals == {1, 2}
\* Tensor ranks the host hands to a kernel.
Ranks == {0, 1, 2}
\* A null OrtValue pointer, and an output never requested.
NullValue == [null |-> TRUE]
NoOutput == [requested |-> FALSE]

\* total_elements: the product of the dimensions (1 for rank 0).
RECURSIVE NumElements(_)
NumElements(dims) ==
    IF Len(dims) = 0 THEN 1 ELSE Head(dims) * NumElements(Tail(dims))

Shapes == {d \in SeqsUpTo(0..MaxElems, 2) : Len(d) \in Ranks /\ NumElements(d) <= MaxElems}

\* A host tensor: its shape and its flattened data.
Tensors ==
    UNION {{[dims |-> d, data |-> x] : x \in {y \in SeqsUpTo(Vals, MaxElems) : Len(y) = NumElements(d)}}
           : d \in Shapes}

\* OrtHardwareDeviceType of a host device.
DeviceTypes == {"CPU", "GPU", "NPU"}
\* The hardware device lists of a host; a device's handle is its position.
DeviceLists == SeqsUpTo(DeviceTypes, MaxDevices)
\* The factories the host may hold (this_ of a factory callback).
Factories == {"factory_1", "factory_2"}

\* Heap slots for SampleEp objects, and the host's session loggers.
SessionIds == {1, 2}
Loggers == {"session_logger_1", "session_logger_2"}
\* The ep_metadata_pairs and session_options the host may pass to CreateEp.
MetadataPairs == {"NULL_PAIRS", "known_pairs", "unknown_pairs"}
SessionOptions == {"default_options", "custom_options"}
\* The registration names the host may load the library under, the
\* OrtApiBase handles it may pass, and its default logger.
RegistrationNames == {"SampleEP", "OtherEP"}
ApiBases == {"api_base_1", "api_base_2", "api_base_old"}
DefaultLoggers == {"default_logger"}
\* Heap slots for ComputeState objects.
StateIds == {1}

VARIABLES
    \* ---- CreateEpFactories / ReleaseEpFactory
    g_apis,           \* static ApiPtrs g_apis
    ep_factories,     \* heap: live SampleEpFactory objects, id -> fields
    mod_pc,           \* "idle" | "done" (CreateEpFactories returned) | "released"
    mod_args,         \* the arguments of the CreateEpFactories call, NoModArgs otherwise
    factories,        \* output array: factory id per slot, "unwritten" if never written
    num_factories,    \* *num_factories, -1 if never written
    mod_status,       \* OrtStatus* returned by the entry point
    rel_factory,      \* factory argument of the ReleaseEpFactory call, "none" otherwise
    host_factories,   \* host: registration name of each factory it holds
    out_of_memory,    \* the process has no memory left: new throws std::bad_alloc
    \* ---- the callbacks that only return a value, one call in flight
    hook_pc,          \* "idle" | "done" (the callback returned)
    hook_call,        \* the callback, "none" otherwise
    hook_this,        \* this_: the factory or the session the callback is called on
    hook_args,        \* the other arguments of the call
    hook_result,      \* what the callback returned and wrote
    \* ---- two host threads, thread t running the life cycle of session t
    t_pc,             \* where thread t is in the life cycle of its session
    t_obj,            \* the session, kernel and state thread t holds, 0 if none
    t_io,             \* the kernel context of thread t's Compute call
    t_tmp,            \* the sum ComputeImpl holds between its loads and its store
    t_heap,           \* heap: the live sessions, kernels and states of the threads
    \* ---- SampleEpFactory::CreateEpImpl / ReleaseEpImpl
    eps,              \* heap: live SampleEp objects, id -> fields
    ep_out,           \* *ep written by the CreateEp call, 0 otherwise
    ep_status,        \* OrtStatus* returned by the last CreateEp call
    sess_pc,          \* "idle" | "done" (CreateEp returned) | "released"
    ep_args,          \* the arguments of the CreateEp call, NoArgs otherwise
    rel_ep,           \* the ep argument of the ReleaseEp call, 0 otherwise
    host_sessions,    \* host: the factory each session was asked from
    \* ---- SampleEpFactory::GetSupportedDevicesImpl, one call in flight
    enum_pc,          \* "undiscovered" | "idle" | "loop" | "done"
    devices,          \* host: the hardware device list (types by handle)
    enum_this,        \* this_
    max_ep_devices,   \* capacity of the output array
    enum_i,           \* loop index i (1-based)
    num_ep_devices,   \* *num_ep_devices
    ep_devices,       \* output array: binding id per slot, 0 = never written
    enum_status,      \* returned OrtStatus*
    host_ep_devices,  \* host: live OrtEpDevice bindings, id -> attributes
    enum_prev,        \* host: what the previous call returned
    \* ---- SampleEp::GetCapabilityImpl, one query in flight
    cap_pc,        \* "idle" | "scan" | "done"
    cap_this,      \* this_: id of the queried session, 0 when idle
    graph,         \* the host's node list of the queried graph (all_nodes)
    num_nodes,     \* local num_nodes
    cap_i,         \* loop index i (1-based)
    fused,         \* host side: units accepted by EpGraphSupportInfo_AddNodesToFuse
    add_calls,     \* host side: number of AddNodesToFuse calls received
    cap_status,    \* returned OrtStatus*: "OK" is nullptr
    cap_fault,     \* host side: the host call that failed in this query, or "none"
    \* ---- SampleEp::CompileImpl / ReleaseNodeComputeInfosImpl
    kernels,            \* heap: live SampleNodeComputeInfo objects, id -> fields
    fused_nodes,        \* host side: operator of the fused node of each batch slot
    node_compute_infos, \* output slots: kernel id per batch slot
    ep_context_nodes,   \* output slots for EPContext nodes, or NullArray
    cpl_pc,             \* "idle" | "done": a Compile call has just returned
    cpl_status,         \* OrtStatus* returned by that call
    \* ---- SampleNodeComputeInfo::CreateStateImpl / ReleaseStateImpl
    states,             \* heap: live ComputeState objects, id -> fields
    st_pc,              \* "idle" | "created" | "released"
    st_kernel,          \* this_ of the CreateState or ReleaseState call, 0 otherwise
    st_out,             \* *compute_state written by the CreateState call, 0 otherwise
    st_status,          \* OrtStatus* returned by the CreateState call
    st_rel,             \* compute_state argument of the ReleaseState call, 0 otherwise
    host_states,        \* host side: per state it holds, the kernel that made it and
                        \* how the Compute calls it was passed to ended
    \* ---- SampleNodeComputeInfo::ComputeImpl, one invocation
    cmp_pc,        \* "idle" | "done"
    cmp_kernel,    \* this_: id of the invoked kernel
    cmp_state,     \* compute_state: id of the state passed in
    input_0,       \* kernel context: first input tensor or NullValue
    input_1,       \* kernel context: second input tensor or NullValue
    host_fault,    \* the host call that fails in this invocation, or "none"
    output,        \* kernel context: output tensor once requested, else NoOutput
    cmp_status,    \* returned OrtStatus*
    shape_info_calls  \* what the invocation did with input_info, in order

enumVars == <<enum_pc, devices, enum_this, max_ep_devices, enum_i, num_ep_devices,
              ep_devices, enum_status, host_ep_devices, enum_prev>>
hookVars == <<hook_pc, hook_call, hook_this, hook_args, hook_result>>
conVars == <<t_pc, t_obj, t_io, t_tmp, t_heap>>
modVars == <<g_apis, ep_factories, mod_pc, mod_args, factories, num_factories,
             mod_status, rel_factory, host_factories, out_of_memory, hookVars, conVars>>
sessVars == <<eps, ep_out, ep_status, sess_pc, ep_args, rel_ep, host_sessions, modVars>>
capVars == <<cap_pc, cap_this, graph, num_nodes, cap_i, fused, add_calls, cap_status,
             cap_fault>>
stateVars == <<states, st_pc, st_kernel, st_out, st_status, st_rel, host_states>>
kernelVars == <<kernels, fused_nodes, node_compute_infos, ep_context_nodes,
                cpl_pc, cpl_status, stateVars>>
cmpVars == <<cmp_pc, cmp_kernel, cmp_state, input_0, input_1, host_fault,
             output, cmp_status, shape_info_calls>>

vars == <<sessVars, enumVars, capVars, kernelVars, cmpVars>>

\* The host makes one call at a time: no call of the module entry points,
\* the factory, a session or a kernel is in flight.
HostIdle ==
    /\ mod_pc = "idle"
    /\ sess_pc = "idle"
    /\ hook_pc = "idle"
    /\ cap_pc = "idle"
    /\ cpl_pc = "idle"
    /\ st_pc = "idle"
    /\ cmp_pc = "idle"

\* =================================================================== heap

\* std::bad_alloc leaving a noexcept callback: std::terminate ends the
\* process inside the call.
Terminated == "std::terminate"

\* Variant: nothing is allocated.
AfterNew_Nothing(heap, id, object) == heap

\* new: the object enters the heap at a free address, every other object
\* stays as it is.
AfterNew(heap, id, object) ==
    [e \in DOMAIN heap \cup {id} |-> IF e = id THEN object ELSE heap[e]]

\* Variant: the object is kept.
AfterDelete_Keep(heap, id) == heap

\* delete: the object leaves the heap, every other object stays as it is.
AfterDelete(heap, id) == [e \in DOMAIN heap \ {id} |-> heap[e]]

\* ============================================================== callbacks

\* this_ of a callback of the factory f, of the session e.
OnFactory(f) == [factory |-> f, ep |-> 0]
OnEp(e) == [factory |-> "none", ep |-> e]

\* What a callback hands back: the returned OrtStatus* ("OK" is nullptr,
\* "none" when it returns something else), a returned or written string,
\* number, flag or object.
NoResult == [status |-> "none", text |-> "none", number |-> 0, flag |-> FALSE,
             object |-> "none"]

\* No Compute call of the thread in flight.
NoKernelContext == [in0 |-> NullValue, in1 |-> NullValue, i |-> 0, out |-> <<>>]

HookInit ==
    /\ hook_pc = "idle"
    /\ hook_call = "none"
    /\ hook_this = OnEp(0)
    /\ hook_args = <<>>
    /\ hook_result = NoResult

\* One call of a callback that only computes result: the host makes it
\* between other calls; nothing but the record of the call is written.
HookCall(call, this, args, result) ==
    /\ HostIdle
    /\ hook_pc' = "done"
    /\ hook_call' = call
    /\ hook_this' = this
    /\ hook_args' = args
    /\ hook_result' = result
    /\ UNCHANGED <<g_apis, ep_factories, mod_pc, mod_args, factories, num_factories,
                   mod_status, rel_factory, host_factories, out_of_memory, conVars>>
    /\ UNCHANGED <<eps, ep_out, ep_status, sess_pc, ep_args, rel_ep, host_sessions>>
    /\ UNCHANGED <<enumVars, capVars, kernelVars, cmpVars>>

\* The host takes what the callback returned.
Hook_Return ==
    /\ hook_pc = "done"
    /\ hook_pc' = "idle"
    /\ hook_call' = "none"
    /\ hook_this' = OnEp(0)
    /\ hook_args' = <<>>
    /\ hook_result' = NoResult
    /\ UNCHANGED <<g_apis, ep_factories, mod_pc, mod_args, factories, num_factories,
                   mod_status, rel_factory, host_factories, out_of_memory, conVars>>
    /\ UNCHANGED <<eps, ep_out, ep_status, sess_pc, ep_args, rel_ep, host_sessions>>
    /\ UNCHANGED <<enumVars, capVars, kernelVars, cmpVars>>

\* ---- SampleEpFactory: identification

\* SampleEpFactory::GetNameImpl: the ep_name_ of the factory.
Factory_GetNameImpl ==
    \E f \in DOMAIN ep_factories :
        HookCall("SampleEpFactory::GetName", OnFactory(f), <<>>,
                 [NoResult EXCEPT !.text = ep_factories[f].ep_name_])

GetVendorImpl ==
    \E f \in DOMAIN ep_factories :
        HookCall("GetVendor", OnFactory(f), <<>>,
                 [NoResult EXCEPT !.text = "SampleVendor"])

\* 0x1234
GetVendorIdImpl ==
    \E f \in DOMAIN ep_factories :
        HookCall("GetVendorId", OnFactory(f), <<>>,
                 [NoResult EXCEPT !.number = 4660])

GetVersionImpl ==
    \E f \in DOMAIN ep_factories :
        HookCall("GetVersion", OnFactory(f), <<>>,
                 [NoResult EXCEPT !.text = "1.0.0"])

\* SampleEp::GetNameImpl: the name of the factory behind factory_.
Ep_GetNameImpl ==
    \E e \in DOMAIN eps :
        HookCall("SampleEp::GetName", OnEp(e), <<>>,
                 [NoResult EXCEPT !.text = ep_factories[eps[e].factory_].ep_name_])

\* ---- SampleEpFactory: optional callbacks; this_ and the inputs are cast
\* to void, so the handle need not be one of a live factory.

ValidateCompiledModelCompatibilityInfoImpl ==
    \E f \in Factories, devs \in {<<>>, <<"CPU">>, <<"GPU">>},
       compatibility_info \in {"nullptr", "compiled_elsewhere"} :
        HookCall("ValidateCompiledModelCompatibilityInfo", OnFactory(f),
                 devs \o <<compatibility_info>>,
                 [NoResult EXCEPT !.status = "OK", !.text = "EP_NOT_APPLICABLE"])

\* Variant: device memory gets an allocator of its own.
CreateAllocator_ForDevice(memory_info, allocator_options) ==
    IF memory_info = "device_memory" THEN "sample_allocator" ELSE "nullptr"

\* *allocator = nullptr: the default CPU allocator is used.
CreateAllocator(memory_info, allocator_options) == "nullptr"

CreateAllocatorImpl ==
    \E f \in Factories, memory_info \in {"cpu_memory", "device_memory"},
       allocator_options \in {<<>>, <<"key_1", "value_1">>} :
        HookCall("CreateAllocator", OnFactory(f), <<memory_info>> \o allocator_options,
                 [NoResult EXCEPT !.status = "OK",
                                  !.object = CreateAllocator(memory_info, allocator_options)])

\* Returns nothing and does nothing.
ReleaseAllocatorImpl ==
    \E f \in Factories, allocator \in {"nullptr", "host_allocator"} :
        HookCall("ReleaseAllocator", OnFactory(f), <<allocator>>, NoResult)

CreateDataTransferImpl ==
    \E f \in Factories :
        HookCall("CreateDataTransfer", OnFactory(f), <<>>,
                 [NoResult EXCEPT !.status = "OK", !.object = "nullptr"])

\* Variant: a factory of a GPU-named registration is stream-aware.
IsStreamAware_SecondFactory(this_) == this_ = "factory_2"

\* return false, whatever this_ is.
IsStreamAware(this_) == FALSE

IsStreamAwareImpl ==
    \E f \in Factories :
        HookCall("IsStreamAware", OnFactory(f), <<>>,
                 [NoResult EXCEPT !.flag = IsStreamAware(f)])

CreateSyncStreamForDeviceImpl ==
    \E f \in Factories, memory_device \in {"cpu_memory", "device_memory"},
       stream_options \in {<<>>, <<"key_1", "value_1">>} :
        HookCall("CreateSyncStreamForDevice", OnFactory(f),
                 <<memory_device>> \o stream_options,
                 [NoResult EXCEPT !.status = "OK", !.object = "nullptr"])

\* ---- SampleEp: advisory callbacks; this_ and the inputs are cast to void.

GetPreferredDataLayoutImpl ==
    \E e \in SessionIds :
        HookCall("GetPreferredDataLayout", OnEp(e), <<>>,
                 [NoResult EXCEPT !.status = "OK", !.text = "NCHW"])

\* Variant: the backend wants its operators converted to NHWC.
ShouldConvertDataLayoutForOp_WantsNhwc(domain, op_type, target_data_layout) ==
    IF target_data_layout = "NHWC" /\ op_type \in {"Add", "Mul"} THEN 1 ELSE -1

\* *should_convert = -1: let ORT decide.
ShouldConvertDataLayoutForOp(domain, op_type, target_data_layout) == -1

ShouldConvertDataLayoutForOpImpl ==
    \E e \in SessionIds, domain \in {"", "com.microsoft"}, op_type \in OpTypes,
       target_data_layout \in {"NCHW", "NHWC"} :
        HookCall("ShouldConvertDataLayoutForOp", OnEp(e),
                 <<domain, op_type, target_data_layout>>,
                 [NoResult EXCEPT !.status = "OK",
                                  !.number = ShouldConvertDataLayoutForOp(
                                                 domain, op_type, target_data_layout)])

SetDynamicOptionsImpl ==
    \E e \in SessionIds, options \in {<<>>, <<"key_1", "value_1">>} :
        HookCall("SetDynamicOptions", OnEp(e), options,
                 [NoResult EXCEPT !.status = "OK"])

OnRunStartImpl ==
    \E e \in SessionIds, run_options \in {"run_options_1", "run_options_2"} :
        HookCall("OnRunStart", OnEp(e), <<run_options>>,
                 [NoResult EXCEPT !.status = "OK"])

OnRunEndImpl ==
    \E e \in SessionIds, run_options \in {"run_options_1", "run_options_2"},
       sync_stream \in {"true", "false"} :
        HookCall("OnRunEnd", OnEp(e), <<run_options, sync_stream>>,
                 [NoResult EXCEPT !.status = "OK"])

\* ---- SampleEp: optional callbacks

EpCreateAllocatorImpl ==
    \E e \in SessionIds, memory_info \in {"cpu_memory", "device_memory"} :
        HookCall("EpCreateAllocator", OnEp(e), <<memory_info>>,
                 [NoResult EXCEPT !.status = "OK", !.object = "nullptr"])

EpCreateSyncStreamForDeviceImpl ==
    \E e \in SessionIds, memory_device \in {"cpu_memory", "device_memory"} :
        HookCall("EpCreateSyncStreamForDevice", OnEp(e), <<memory_device>>,
                 [NoResult EXCEPT !.status = "OK", !.object = "nullptr"])

\* Returns a null string.
GetCompiledModelCompatibilityInfoImpl ==
    \E e \in SessionIds, g \in {"graph_1", "graph_2"} :
        HookCall("GetCompiledModelCompatibilityInfo", OnEp(e), <<g>>,
                 [NoResult EXCEPT !.text = "nullptr"])

\* The process runs out of memory between two calls of the host.
ExhaustMemory ==
    /\ HostIdle
    /\ ~out_of_memory
    /\ out_of_memory' = TRUE
    /\ UNCHANGED <<g_apis, ep_factories, mod_pc, mod_args, factories, num_factories,
                   mod_status, rel_factory, host_factories, hookVars, conVars>>
    /\ UNCHANGED <<eps, ep_out, ep_status, sess_pc, ep_args, rel_ep, host_sessions>>
    /\ UNCHANGED <<enumVars, capVars, kernelVars, cmpVars>>

\* ================================================================= module

\* api_base->GetApi(ORT_API_VERSION): the host's API table, or null when
\* the host does not know the version the library was built for.
GetApi(api_base) ==
    IF api_base = "api_base_1" THEN "ort_api_1"
    ELSE IF api_base = "api_base_2" THEN "ort_api_2"
    ELSE "nullptr"

\* ort_api->GetEpApi()
GetEpApi(ort_api) == IF ort_api = "ort_api_1" THEN "ep_api_1" ELSE "ep_api_2"

\* struct ApiPtrs as declared, and after Init(api_base, log).
NullApis == [ort_api |-> "nullptr", ep_api |-> "nullptr", logger |-> "nullptr"]
ApiPtrs_Init(api_base, log) ==
    [ort_api |-> GetApi(api_base),
     ep_api |-> IF GetApi(api_base) = "nullptr" THEN "nullptr"
                ELSE GetEpApi(GetApi(api_base)),
     logger |-> log]

\* Variant: the factory is called what it was registered as.
NewEpFactory_PlainName(name, apis) == [ep_name_ |-> name, apis_ |-> apis]

\* SampleEpFactory(name, apis): the provider name and a copy of the tables.
NewEpFactory(name, apis) ==
    [ep_name_ |-> name \o "PluginExecutionProvider", apis_ |-> apis]

\* The process died inside the entry point.
ModuleCrash == "CRASH"

NoModArgs == [registration_name |-> "none", ort_api_base |-> "none",
              default_logger |-> "none", max_factories |-> 0]

\* Variant: the capacity test is off by one.
HasRoom_AtLeastTwo(max_factories) == ~(max_factories < 2)

\* !(max_factories < 1)
HasRoom(max_factories) == ~(max_factories < 1)

ModInit ==
    /\ g_apis = NullApis
    /\ ep_factories = <<>>
    /\ mod_pc = "idle"
    /\ mod_args = NoModArgs
    /\ factories = <<>>
    /\ num_factories = -1
    /\ mod_status = "none"
    /\ rel_factory = "none"
    /\ host_factories = <<>>
    /\ out_of_memory = FALSE
    /\ HookInit
    /\ t_pc = [t \in SessionIds |-> "start"]
    /\ t_obj = [t \in SessionIds |-> [ep |-> 0, kernel |-> 0, state |-> 0]]
    /\ t_io = [t \in SessionIds |-> NoKernelContext]
    /\ t_tmp = [t \in SessionIds |-> 0]
    /\ t_heap = [eps |-> <<>>, kernels |-> <<>>, states |-> <<>>]

\* CreateEpFactories: g_apis is initialised first; with no room the status
\* made by CreateStatus is returned; otherwise one factory is created,
\* written to factories[0], and the count set to 1.  A null API table is
\* dereferenced by Init.
CreateEpFactories ==
    /\ HostIdle
    /\ \E name \in RegistrationNames, api_base \in ApiBases, log \in DefaultLoggers,
          max_factories \in 0..MaxCapacity :
         \E id \in (IF GetApi(api_base) # "nullptr" /\ HasRoom(max_factories)
                    THEN Factories \ DOMAIN ep_factories ELSE {"none"}) :
         LET apis == ApiPtrs_Init(api_base, log)
             unwritten == [j \in 1..max_factories |-> "unwritten"]
         IN
         /\ mod_args' = [registration_name |-> name, ort_api_base |-> api_base,
                         default_logger |-> log, max_factories |-> max_factories]
         /\ IF GetApi(api_base) = "nullptr"
            THEN /\ g_apis' = [g_apis EXCEPT !.ort_api = "nullptr"]
                 /\ mod_status' = ModuleCrash
                 /\ factories' = unwritten
                 /\ UNCHANGED <<ep_factories, host_factories>>
            ELSE /\ g_apis' = apis
                 /\ IF ~HasRoom(max_factories)
                    THEN /\ factories' = unwritten
                         /\ mod_status' = "ORT_INVALID_ARGUMENT"
                         /\ UNCHANGED <<ep_factories, host_factories>>
                    ELSE IF out_of_memory
                    THEN /\ factories' = unwritten
                         /\ mod_status' = Terminated
                         /\ UNCHANGED <<ep_factories, host_factories>>
                    ELSE /\ ep_factories' = AfterNew(ep_factories, id, NewEpFactory(name, apis))
                         /\ factories' = [unwritten EXCEPT ![1] = id]
                         /\ mod_status' = "OK"
                         /\ host_factories' = AfterNew(host_factories, id, name)
         /\ num_factories' = IF GetApi(api_base) # "nullptr" /\ HasRoom(max_factories)
                                 /\ ~out_of_memory
                             THEN 1 ELSE -1
    /\ mod_pc' = "done"
    /\ UNCHANGED <<rel_factory, out_of_memory, hookVars, conVars>>
    /\ UNCHANGED <<eps, ep_out, ep_status, sess_pc, ep_args, rel_ep, host_sessions>>
    /\ UNCHANGED <<enumVars, capVars, kernelVars, cmpVars>>

\* The host takes the status and the factories.
CreateEpFactories_Return ==
    /\ mod_pc = "done"
    /\ mod_status # ModuleCrash
    /\ mod_status # Terminated
    /\ mod_pc' = "idle"
    /\ mod_args' = NoModArgs
    /\ factories' = <<>>
    /\ num_factories' = -1
    /\ mod_status' = "none"
    /\ UNCHANGED <<g_apis, ep_factories, rel_factory, host_factories, out_of_memory,
                   hookVars, conVars>>
    /\ UNCHANGED <<eps, ep_out, ep_status, sess_pc, ep_args, rel_ep, host_sessions>>
    /\ UNCHANGED <<enumVars, capVars, kernelVars, cmpVars>>

\* ReleaseEpFactory on a factory the host got from CreateEpFactories:
\* delete it, return nullptr.  The host has released the sessions of a
\* factory before it releases the factory.
ReleaseEpFactory ==
    /\ HostIdle
    /\ \E f \in DOMAIN ep_factories :
         /\ \A e \in DOMAIN eps : eps[e].factory_ # f
         /\ ep_factories' = AfterDelete(ep_factories, f)
         /\ host_factories' = AfterDelete(host_factories, f)
         /\ rel_factory' = f
    /\ mod_status' = "OK"
    /\ mod_pc' = "released"
    /\ UNCHANGED <<g_apis, mod_args, factories, num_factories, out_of_memory,
                   hookVars, conVars>>
    /\ UNCHANGED <<eps, ep_out, ep_status, sess_pc, ep_args, rel_ep, host_sessions>>
    /\ UNCHANGED <<enumVars, capVars, kernelVars, cmpVars>>

\* The host takes the status and forgets the pointer.
ReleaseEpFactory_Return ==
    /\ mod_pc = "released"
    /\ mod_pc' = "idle"
    /\ rel_factory' = "none"
    /\ mod_status' = "none"
    /\ UNCHANGED <<g_apis, ep_factories, mod_args, factories, num_factories,
                   host_factories, out_of_memory, hookVars, conVars>>
    /\ UNCHANGED <<eps, ep_out, ep_status, sess_pc, ep_args, rel_ep, host_sessions>>
    /\ UNCHANGED <<enumVars, capVars, kernelVars, cmpVars>>

\* ================================================================ factory

\* Variant: GPU devices pass the test too.
IsSupportedDevice_AnyComputeUnit(device_type) == device_type \in {"CPU", "GPU"}

\* The device test of GetSupportedDevicesImpl: CPU devices only.
IsSupportedDevice(device_type) == device_type = "CPU"

\* A null OrtKeyValuePairs pointer.
NullPairs == "NULL_PAIRS"

\* The arguments of CreateEpDevice: the factory, the hardware device, no
\* metadata and no options; the host builds the binding from them.
EpDeviceArgs(this, hw_device) ==
    [factory |-> this, device |-> hw_device,
     ep_metadata |-> NullPairs, ep_options |-> NullPairs]

\* Variant: the capacity test lets the count reach one past the capacity.
LoopCond_Inclusive(i, count, num_devices, capacity) ==
    i <= num_devices /\ count <= capacity

\* Variant: the loop ignores the capacity of the output array.
LoopCond_NoCapacityCheck(i, count, num_devices, capacity) == i <= num_devices

\* i < num_devices && *num_ep_devices < max_ep_devices
LoopCond(i, count, num_devices, capacity) == i <= num_devices /\ count < capacity

\* Variant: the binding the previous call left in that slot is handed out
\* again instead of the new one.
SlotValue_Cached(ep_device, count) ==
    IF enum_prev.called /\ count + 1 <= Len(enum_prev.ep_devices)
          /\ enum_prev.ep_devices[count + 1] # 0
    THEN enum_prev.ep_devices[count + 1]
    ELSE ep_device

\* ep_devices[*num_ep_devices] = ep_device
SlotValue(ep_device, count) == ep_device

\* The host's allocator: a binding id no live binding has.
FreshEpDevice == CHOOSE id \in 1..(2 * MaxCapacity + 1) : id \notin DOMAIN host_ep_devices

NoPrevCall == [called |-> FALSE]

EnumInit ==
    /\ enum_pc = "undiscovered"
    /\ devices = <<>>
    /\ enum_this = "none"
    /\ max_ep_devices = 0
    /\ enum_i = 0
    /\ num_ep_devices = 0
    /\ ep_devices = <<>>
    /\ enum_status = "none"
    /\ host_ep_devices = <<>>
    /\ enum_prev = NoPrevCall

\* The host discovers its hardware once; the list then stays unchanged.
HostDiscoverDevices ==
    /\ enum_pc = "undiscovered"
    /\ \E d \in DeviceLists : devices' = d
    /\ enum_pc' = "idle"
    /\ UNCHANGED <<enum_this, max_ep_devices, enum_i, num_ep_devices, ep_devices,
                   enum_status, host_ep_devices, enum_prev>>
    /\ UNCHANGED <<sessVars, capVars, kernelVars, cmpVars>>

\* Entry of GetSupportedDevicesImpl: *num_ep_devices = 0, before the loop.
GetSupportedDevices_Enter ==
    /\ enum_pc = "idle"
    /\ \E this \in Factories, capacity \in 0..MaxCapacity :
         /\ enum_this' = this
         /\ max_ep_devices' = capacity
         /\ ep_devices' = [j \in 1..capacity |-> 0]
    /\ num_ep_devices' = 0
    /\ enum_i' = 1
    /\ enum_pc' = "loop"
    /\ enum_status' = "none"
    /\ UNCHANGED <<devices, host_ep_devices, enum_prev>>
    /\ UNCHANGED <<sessVars, capVars, kernelVars, cmpVars>>

\* One iteration of the loop over the hardware devices.
GetSupportedDevices_Iter ==
    /\ enum_pc = "loop"
    /\ LoopCond(enum_i, num_ep_devices, Len(devices), max_ep_devices)
    /\ IF IsSupportedDevice(devices[enum_i])
       THEN \E okCreate \in BOOLEAN :
            IF ~okCreate
            THEN /\ enum_pc' = "done"
                 /\ enum_status' = "ERR_CreateEpDevice"
                 /\ UNCHANGED <<enum_i, num_ep_devices, ep_devices, host_ep_devices>>
            ELSE LET ep_device == FreshEpDevice IN
                 /\ host_ep_devices' =
                        [id \in DOMAIN host_ep_devices \cup {ep_device} |->
                            IF id = ep_device THEN EpDeviceArgs(enum_this, enum_i)
                            ELSE host_ep_devices[id]]
                 /\ ep_devices' = [ep_devices EXCEPT ![num_ep_devices + 1] =
                                        SlotValue(ep_device, num_ep_devices)]
                 /\ num_ep_devices' = num_ep_devices + 1
                 /\ enum_i' = enum_i + 1
                 /\ UNCHANGED <<enum_pc, enum_status>>
       ELSE /\ enum_i' = enum_i + 1
            /\ UNCHANGED <<enum_pc, enum_status, num_ep_devices, ep_devices, host_ep_devices>>
    /\ UNCHANGED <<devices, enum_this, max_ep_devices, enum_prev>>
    /\ UNCHANGED <<sessVars, capVars, kernelVars, cmpVars>>

\* Loop exit and the final return nullptr.
GetSupportedDevices_Exit ==
    /\ enum_pc = "loop"
    /\ ~LoopCond(enum_i, num_ep_devices, Len(devices), max_ep_devices)
    /\ enum_pc' = "done"
    /\ enum_status' = "OK"
    /\ UNCHANGED <<devices, enum_this, max_ep_devices, enum_i, num_ep_devices,
                   ep_devices, host_ep_devices, enum_prev>>
    /\ UNCHANGED <<sessVars, capVars, kernelVars, cmpVars>>

\* The host takes the result and remembers it; it releases the bindings of
\* the call before, which leaves those of this call alive.
GetSupportedDevices_Return ==
    /\ enum_pc = "done"
    /\ enum_prev' = [called |-> TRUE, this |-> enum_this, capacity |-> max_ep_devices,
                     status |-> enum_status, count |-> num_ep_devices,
                     ep_devices |-> ep_devices]
    /\ host_ep_devices' =
          LET mine == {ep_devices[j] : j \in 1..Len(ep_devices)} \ {0}
          IN  [id \in DOMAIN host_ep_devices \cap mine |-> host_ep_devices[id]]
    /\ enum_pc' = "idle"
    /\ enum_this' = "none"
    /\ max_ep_devices' = 0
    /\ enum_i' = 0
    /\ num_ep_devices' = 0
    /\ ep_devices' = <<>>
    /\ enum_status' = "none"
    /\ UNCHANGED devices
    /\ UNCHANGED <<sessVars, capVars, kernelVars, cmpVars>>

\* ================================================================ session

\* Variant: every session logs to the first logger the host ever had.
NewEp_DefaultLogger(factory, logger) ==
    [factory_ |-> factory, session_logger_ |-> "session_logger_1"]

\* SampleEp(factory, session_logger): the back-reference to the factory
\* and the session's logger.
NewEp(factory, logger) == [factory_ |-> factory, session_logger_ |-> logger]

\* No CreateEp call in flight.
NoArgs == [this |-> "none", devices |-> <<>>, ep_metadata_pairs |-> "NULL_PAIRS",
           session_options |-> "default_options", logger |-> "none"]

SessInit ==
    /\ eps = <<>>
    /\ ep_out = 0
    /\ ep_status = "none"
    /\ sess_pc = "idle"
    /\ ep_args = NoArgs
    /\ rel_ep = 0
    /\ host_sessions = <<>>
    /\ ModInit

\* Variant: a device the factory does not support is an error.
CreateEpStatus_Strict(selected, ep_metadata_pairs, session_options) ==
    IF \A j \in 1..Len(selected) : selected[j] = "CPU"
    THEN "OK" ELSE "ERR_UnsupportedDevice"

\* The status CreateEpImpl returns: devices, ep_metadata_pairs, num_devices
\* and session_options are cast to void, the only return is nullptr.
CreateEpStatus(selected, ep_metadata_pairs, session_options) == "OK"

\* CreateEpImpl on a factory handle of handles for a device selection of
\* selections: a new SampleEp is created from the factory and the logger
\* and written to *ep.  The host makes the call between other calls.
CreateEp(handles, selections) ==
    /\ HostIdle
    /\ \E id \in SessionIds \ DOMAIN eps, this \in handles, logger \in Loggers,
          selected \in selections, pairs \in MetadataPairs, options \in SessionOptions :
         LET st == CreateEpStatus(selected, pairs, options) IN
         /\ ep_args' = [this |-> this, devices |-> selected, ep_metadata_pairs |-> pairs,
                        session_options |-> options, logger |-> logger]
         /\ IF out_of_memory
            THEN /\ ep_status' = Terminated
                 /\ UNCHANGED <<eps, ep_out, host_sessions>>
            ELSE /\ ep_status' = st
                 /\ IF st = "OK"
                    THEN /\ eps' = [e \in DOMAIN eps \cup {id} |->
                                       IF e = id THEN NewEp(this, logger) ELSE eps[e]]
                         /\ ep_out' = id
                         /\ host_sessions' = AfterNew(host_sessions, id, this)
                    ELSE UNCHANGED <<eps, ep_out, host_sessions>>
    /\ sess_pc' = "done"
    /\ UNCHANGED <<rel_ep, modVars>>
    /\ UNCHANGED <<enumVars, capVars, kernelVars, cmpVars>>

\* The host asks any factory handle for a session on any device selection.
CreateEpImpl == CreateEp(Factories, DeviceLists)

\* The host asks a factory it holds for a session on the devices the
\* factory enumerated for it.
CreateEpImpl_Loaded ==
    CreateEp(DOMAIN ep_factories,
             {d \in DeviceLists : \A j \in 1..Len(d) : d[j] = "CPU"})

\* The host takes the status and *ep; the arguments of the call are gone.
CreateEp_Return ==
    /\ sess_pc = "done"
    /\ ep_status # Terminated
    /\ sess_pc' = "idle"
    /\ ep_args' = NoArgs
    /\ ep_out' = 0
    /\ UNCHANGED <<eps, ep_status, rel_ep, host_sessions, modVars>>
    /\ UNCHANGED <<enumVars, capVars, kernelVars, cmpVars>>

\* ReleaseEpImpl on session id: delete the SampleEp.  The host makes the
\* call between capability queries.
ReleaseEp(id) ==
    /\ HostIdle
    /\ id \in DOMAIN eps
    /\ eps' = AfterDelete(eps, id)
    /\ host_sessions' = AfterDelete(host_sessions, id)
    /\ sess_pc' = "released"
    /\ rel_ep' = id
    /\ UNCHANGED <<ep_out, ep_status, ep_args, modVars>>
    /\ UNCHANGED <<enumVars, capVars, kernelVars, cmpVars>>

ReleaseEpImpl == \E id \in SessionIds : ReleaseEp(id)

\* ReleaseEpImpl returns nothing; the host forgets the pointer.
ReleaseEp_Return ==
    /\ sess_pc = "released"
    /\ sess_pc' = "idle"
    /\ rel_ep' = 0
    /\ UNCHANGED <<eps, ep_out, ep_status, ep_args, host_sessions, modVars>>
    /\ UNCHANGED <<enumVars, capVars, kernelVars, cmpVars>>

\* The tables every session sees when the host has loaded the library once.
OneSessionApis == [ort_api |-> "ort_api", ep_api |-> "ep_api", logger |-> "logger"]

\* ============================================================ partitioner

\* Variant: Add is the only operator on the allow-list.
IsSupportedOp_OnlyAdd(op_type) ==
    op_type # NullOpType /\ op_type = "Add"

\* The allow-list test of GetCapabilityImpl: a non-null op_type equal to
\* "Add" or "Mul".
IsSupportedOp(op_type) ==
    op_type # NullOpType /\ (op_type = "Add" \/ op_type = "Mul")

\* Variant: a supported node is fused with the node in front of it.
SingleNodeUnit_WithPrevious(i) == IF i > 1 THEN <<i - 1, i>> ELSE <<i>>

\* The unit handed to AddNodesToFuse: the single node, count 1.
SingleNodeUnit(i) == <<i>>

\* Variant: the scan stays on the node it has inspected.
NextIndex_Stay(i) == i

\* Variant: the scan advances by two.
NextIndex_Skip(i) == i + 2

\* ++i of the scan loop.
NextIndex(i) == i + 1

\* Variant: the status of a failed host call is dropped.
FailedStatus_Dropped(call) == "OK"

\* if (status != nullptr) return status: the status the host call made is
\* handed back as it is.
FailedStatus(call) == "ERR_" \o call

\* Variant: no early return for an empty graph.
Prologue_NoEmptyCheck(n, okNum, okNodes) ==
    IF ~okNum THEN FailedStatus("Graph_GetNumNodes")
    ELSE IF ~okNodes THEN FailedStatus("Graph_GetNodes")
    ELSE "scan"

\* Outcome of the calls before the scan loop: the status to return, or
\* "scan" when the loop is entered.
Prologue(n, okNum, okNodes) ==
    IF ~okNum THEN FailedStatus("Graph_GetNumNodes")
    ELSE IF n = 0 THEN "OK"
    ELSE IF ~okNodes THEN FailedStatus("Graph_GetNodes")
    ELSE "scan"

CapInit ==
    /\ cap_pc = "idle"
    /\ cap_this = 0
    /\ graph = <<>>
    /\ num_nodes = 0
    /\ cap_i = 0
    /\ fused = <<>>
    /\ add_calls = 0
    /\ cap_status = "none"
    /\ cap_fault = "none"

\* Entry of GetCapabilityImpl up to the loop: Graph_GetNumNodes, the
\* empty-graph return, Graph_GetNodes.  The host supplies a fresh
\* graph_support_info with the call.
GetCapability_Begin(graphs) ==
    /\ UNCHANGED <<sessVars, enumVars, kernelVars, cmpVars>>
    /\ HostIdle
    /\ \E this \in DOMAIN eps, g \in graphs, okNum \in BOOLEAN, okNodes \in BOOLEAN :
         LET r == Prologue(Len(g), okNum, okNodes) IN
         /\ cap_this' = this
         /\ graph' = g
         /\ fused' = <<>>
         /\ add_calls' = 0
         /\ num_nodes' = IF okNum THEN Len(g) ELSE 0
         /\ cap_fault' = IF ~okNum THEN "Graph_GetNumNodes"
                         ELSE IF Len(g) # 0 /\ ~okNodes THEN "Graph_GetNodes"
                         ELSE "none"
         /\ IF r = "scan"
            THEN /\ cap_pc' = "scan"
                 /\ cap_i' = 1
                 /\ cap_status' = "none"
            ELSE /\ cap_pc' = "done"
                 /\ cap_i' = 0
                 /\ cap_status' = r

\* The host asks about any graph.
GetCapability_Enter == GetCapability_Begin(Graphs)

\* The host asks about a graph of at most two nodes.
GetCapability_Enter_Small == GetCapability_Begin(SeqsUpTo({"Add", "Sub", NullNode}, 2))

\* One iteration of the scan loop over all_nodes.
GetCapability_Iter ==
    /\ UNCHANGED <<sessVars, enumVars, kernelVars, cmpVars>>
    /\ cap_pc = "scan"
    /\ cap_i <= num_nodes
    /\ UNCHANGED <<cap_this, graph, num_nodes>>
    /\ IF graph[cap_i] = NullNode
       THEN \* if (!node) continue;
            /\ cap_i' = NextIndex(cap_i)
            /\ UNCHANGED <<cap_pc, fused, add_calls, cap_status, cap_fault>>
       ELSE \E okOp \in BOOLEAN, okAdd \in BOOLEAN :
            IF ~okOp
            THEN /\ cap_pc' = "done"
                 /\ cap_status' = FailedStatus("Node_GetOperatorType")
                 /\ cap_fault' = "Node_GetOperatorType"
                 /\ UNCHANGED <<cap_i, fused, add_calls>>
            ELSE IF IsSupportedOp(graph[cap_i])
            THEN /\ add_calls' = add_calls + 1
                 /\ IF okAdd
                    THEN /\ fused' = Append(fused, SingleNodeUnit(cap_i))
                         /\ cap_i' = NextIndex(cap_i)
                         /\ UNCHANGED <<cap_pc, cap_status, cap_fault>>
                    ELSE /\ cap_pc' = "done"
                         /\ cap_status' = FailedStatus("EpGraphSupportInfo_AddNodesToFuse")
                         /\ cap_fault' = "EpGraphSupportInfo_AddNodesToFuse"
                         /\ UNCHANGED <<cap_i, fused>>
            ELSE /\ cap_i' = NextIndex(cap_i)
                 /\ UNCHANGED <<cap_pc, fused, add_calls, cap_status, cap_fault>>

\* Variant: claimed nodes are compiled as soon as the scan is over.
GetCapability_Exit_Compiling ==
    /\ cap_pc = "scan"
    /\ cap_i > num_nodes
    /\ cap_pc' = "done"
    /\ cap_status' = "OK"
    /\ kernels' = Append(kernels, [ort_api |-> OneSessionApis.ort_api,
                                   ep_api |-> OneSessionApis.ep_api])
    /\ UNCHANGED <<cap_this, graph, num_nodes, cap_i, fused, add_calls, cap_fault>>
    /\ UNCHANGED <<sessVars, enumVars, cmpVars, stateVars>>
    /\ UNCHANGED <<fused_nodes, node_compute_infos, ep_context_nodes, cpl_pc, cpl_status>>

\* Loop exit and the final return nullptr.
GetCapability_Exit ==
    /\ UNCHANGED <<sessVars, enumVars, kernelVars, cmpVars>>
    /\ cap_pc = "scan"
    /\ cap_i > num_nodes
    /\ cap_pc' = "done"
    /\ cap_status' = "OK"
    /\ UNCHANGED <<cap_this, graph, num_nodes, cap_i, fused, add_calls, cap_fault>>

\* The host takes the result; the callback keeps nothing of the query.
GetCapability_Return ==
    /\ UNCHANGED <<sessVars, enumVars, kernelVars, cmpVars>>
    /\ cap_pc = "done"
    /\ cap_pc' = "idle"
    /\ cap_this' = 0
    /\ graph' = <<>>
    /\ num_nodes' = 0
    /\ cap_i' = 0
    /\ fused' = <<>>
    /\ add_calls' = 0
    /\ cap_status' = "none"
    /\ cap_fault' = "none"

\* ================================================================ compiler

\* ep_context_nodes == nullptr: the host supplied no such array.
NullArray == [supplied |-> FALSE, slots |-> <<>>]

\* The operators of the units the host re-presents to Compile: the claimed ones.
ClaimedOps == {op \in OpTypes : IsSupportedOp(op)}
\* The batches of a host that compiles what the partitioner claimed.
ClaimedBatches == SeqsUpTo(ClaimedOps, MaxBatch)
\* The batches of any host: a unit is the operator of its fused node, or a
\* null fused node.
Batches == SeqsUpTo(OpTypes \cup {NullNode}, MaxUnits)

\* Variant: the kernel remembers the fused node it was compiled for.
NewKernel_KeepsNode(op, apis) ==
    [ort_api |-> apis.ort_api, ep_api |-> apis.ep_api, node |-> op]

\* SampleNodeComputeInfo(apis): the kernel copies the two API tables out of
\* apis and keeps nothing of the fused node or the graph.
NewKernel(op, apis) == [ort_api |-> apis.ort_api, ep_api |-> apis.ep_api]

\* Variant: the session reads the tables of the last module load.
SessionApis_Global(this) == g_apis

\* SampleEp::GetApis(): the tables of the factory the session came from,
\* read through the session's factory pointer.
SessionApis(this) == ep_factories[eps[this].factory_].apis_

\* Variant: one kernel serves every slot.
CompiledSlots_Shared(count) == [i \in 1..count |-> 1]

\* node_compute_infos[i] = compute_info: slot i holds the i-th kernel
\* made by the call.
CompiledSlots(count) == [i \in 1..count |-> i]

\* The status CompileImpl returns: graphs and fused_nodes are cast to void,
\* the only return is nullptr.
CompileStatus(nodes) == "OK"

KernelInit ==
    /\ kernels = <<>>
    /\ fused_nodes = <<>>
    /\ node_compute_infos = <<>>
    /\ ep_context_nodes = NullArray
    /\ cpl_pc = "idle"
    /\ cpl_status = "none"
    /\ states = <<>>
    /\ st_pc = "idle"
    /\ st_kernel = 0
    /\ st_out = 0
    /\ st_status = "none"
    /\ st_rel = 0
    /\ host_states = <<>>

\* CompileImpl on a batch of count units: one new kernel per unit written
\* to slot i, ep_context_nodes[i] = nullptr when the array is supplied.
\* Kernel i of the batch gets heap id i (the heap is empty before).  The
\* batch is one of batches, the EPContext array is supplied or not as
\* with_ctxs allows, and apis is what ep->GetApis() gives for the session
\* the call is made on.
Compile(batches, with_ctxs, apis) ==
    /\ HostIdle
    /\ kernels = <<>>
    /\ \E nodes \in batches, with_ctx \in with_ctxs :
         /\ fused_nodes' = nodes
         /\ IF out_of_memory /\ Len(nodes) > 0
            THEN \* the first new of the loop throws
                 /\ cpl_status' = Terminated
                 /\ UNCHANGED <<kernels, node_compute_infos, ep_context_nodes>>
            ELSE /\ kernels' = [i \in 1..Len(nodes) |-> NewKernel(nodes[i], apis)]
                 /\ node_compute_infos' = CompiledSlots(Len(nodes))
                 /\ ep_context_nodes' =
                       IF with_ctx
                       THEN [supplied |-> TRUE,
                             slots |-> [i \in 1..Len(nodes) |-> NullNode]]
                       ELSE NullArray
                 /\ cpl_status' = CompileStatus(nodes)
    /\ cpl_pc' = "done"
    /\ UNCHANGED stateVars
    /\ UNCHANGED <<sessVars, enumVars, capVars, cmpVars>>

\* Compile as the host calls it after partitioning: claimed units only.
CompileImpl == Compile(ClaimedBatches, BOOLEAN, OneSessionApis)

\* Compile as any caller may call it: any units.
CompileImpl_AnyBatch == Compile(Batches, BOOLEAN, OneSessionApis)

\* Compile called on a session the host holds, for a batch of Add units.
CompileImpl_OnSession ==
    \E this \in DOMAIN eps :
        Compile(SeqsUpTo({"Add"}, MaxUnits), {FALSE}, SessionApis(this))

\* The host takes the status, the kernels and the EPContext nodes.
Compile_Return ==
    /\ cpl_pc = "done"
    /\ cpl_status # Terminated
    /\ cpl_pc' = "idle"
    /\ cpl_status' = "none"
    /\ ep_context_nodes' = NullArray
    /\ UNCHANGED <<kernels, fused_nodes, node_compute_infos, stateVars>>
    /\ UNCHANGED <<sessVars, enumVars, capVars, cmpVars>>

\* The host destroys the graphs Compile was called on, and with them the
\* fused nodes, once Compile has returned.
DestroyGraphs ==
    /\ HostIdle
    /\ kernels # <<>>
    /\ fused_nodes # <<>>
    /\ fused_nodes' = <<>>
    /\ UNCHANGED <<kernels, node_compute_infos, ep_context_nodes, cpl_pc, cpl_status,
                   stateVars>>
    /\ UNCHANGED <<sessVars, enumVars, capVars, cmpVars>>

\* Variant: the release loop starts at the second kernel.
ReleaseNodeComputeInfosImpl_FromSecond ==
    /\ HostIdle
    /\ states = <<>>
    /\ kernels # <<>>
    /\ kernels' = <<kernels[1]>>
    /\ fused_nodes' = <<>>
    /\ node_compute_infos' = <<>>
    /\ UNCHANGED <<ep_context_nodes, cpl_pc, cpl_status, stateVars>>
    /\ UNCHANGED <<sessVars, enumVars, capVars, cmpVars>>

\* ReleaseNodeComputeInfosImpl on the kernels of the batch.  The host has
\* released the states of a kernel before it releases the kernel.
ReleaseNodeComputeInfosImpl ==
    /\ HostIdle
    /\ states = <<>>
    /\ kernels # <<>>
    /\ kernels' = <<>>
    /\ fused_nodes' = <<>>
    /\ node_compute_infos' = <<>>
    /\ UNCHANGED <<ep_context_nodes, cpl_pc, cpl_status, stateVars>>
    /\ UNCHANGED <<sessVars, enumVars, capVars, cmpVars>>

\* ================================================================== state

\* struct ComputeState { bool initialized = true; }
NewComputeState == [initialized |-> TRUE]


\* CreateStateImpl of kernel k: this_ and compute_context are not looked
\* at; a new ComputeState is allocated and written to *compute_state.
CreateStateImpl ==
    /\ HostIdle
    /\ \E k \in DOMAIN kernels, id \in StateIds \ DOMAIN states :
         /\ st_kernel' = k
         /\ IF out_of_memory
            THEN /\ st_status' = Terminated
                 /\ UNCHANGED <<states, st_out, host_states>>
            ELSE /\ states' = AfterNew(states, id, NewComputeState)
                 /\ st_out' = id
                 /\ st_status' = "OK"
                 /\ host_states' = [s \in DOMAIN host_states \cup {id} |->
                                       IF s = id THEN [kernel |-> k, computes |-> {}]
                                       ELSE host_states[s]]
    /\ st_pc' = "created"
    /\ UNCHANGED st_rel
    /\ UNCHANGED <<kernels, fused_nodes, node_compute_infos, ep_context_nodes,
                   cpl_pc, cpl_status>>
    /\ UNCHANGED <<sessVars, enumVars, capVars, cmpVars>>

\* The host takes the status and the state pointer.
CreateState_Return ==
    /\ st_pc = "created"
    /\ st_status # Terminated
    /\ st_pc' = "idle"
    /\ st_kernel' = 0
    /\ st_out' = 0
    /\ st_status' = "none"
    /\ UNCHANGED <<states, st_rel, host_states>>
    /\ UNCHANGED <<kernels, fused_nodes, node_compute_infos, ep_context_nodes,
                   cpl_pc, cpl_status>>
    /\ UNCHANGED <<sessVars, enumVars, capVars, cmpVars>>

\* ReleaseStateImpl of kernel k on state id: this_ is not looked at, the
\* ComputeState is deleted.
ReleaseState(k, id) ==
    /\ HostIdle
    /\ k \in DOMAIN kernels
    /\ id \in DOMAIN states
    /\ states' = AfterDelete(states, id)
    /\ host_states' = [s \in DOMAIN host_states \ {id} |-> host_states[s]]
    /\ st_kernel' = k
    /\ st_rel' = id
    /\ st_pc' = "released"
    /\ UNCHANGED <<st_out, st_status>>
    /\ UNCHANGED <<kernels, fused_nodes, node_compute_infos, ep_context_nodes,
                   cpl_pc, cpl_status>>
    /\ UNCHANGED <<sessVars, enumVars, capVars, cmpVars>>

ReleaseStateImpl == \E k \in DOMAIN kernels, id \in StateIds : ReleaseState(k, id)

\* ReleaseStateImpl returns nothing; the host forgets the pointer.
ReleaseState_Return ==
    /\ st_pc = "released"
    /\ st_pc' = "idle"
    /\ st_kernel' = 0
    /\ st_rel' = 0
    /\ UNCHANGED <<states, st_out, st_status, host_states>>
    /\ UNCHANGED <<kernels, fused_nodes, node_compute_infos, ep_context_nodes,
                   cpl_pc, cpl_status>>
    /\ UNCHANGED <<sessVars, enumVars, capVars, cmpVars>>

\* ================================================================= compute

\* The host calls ComputeImpl makes, in order; one of them may fail.
\* "GetOutput_null" is KernelContext_GetOutput succeeding with a null value.
HostCalls == {"KernelContext_GetInput_0", "KernelContext_GetInput_1",
              "GetTensorTypeAndShape", "GetDimensionsCount", "GetDimensions",
              "KernelContext_GetOutput", "GetOutput_null",
              "GetTensorData_0", "GetTensorData_1", "GetTensorMutableData"}

\* What a read past the end of input 1's buffer yields: some value per
\* index, or the process dies at the first such read.
Crash == "CRASH"
Garbage == [1..MaxElems -> Vals]

\* Variant: the elements are multiplied.
ElementOp_Mul(a, b) == a * b

\* data_out[i] = data_0[i] + data_1[i]
ElementOp(a, b) == a + b

Ret(st, out) == [status |-> st, output |-> out]

\* The tensor KernelContext_GetOutput hands back for dims: size elements
\* allocated, data holds the elements written so far.
FreshOutput(dims) == [dims |-> dims, size |-> NumElements(dims), data |-> <<>>]

\* data_1[i]: inside the buffer its element, outside whatever lies there.
ReadInput1(in1, i, garbage) ==
    IF i <= Len(in1.data) THEN in1.data[i] ELSE garbage[i]

\* total_elements: from the dimensions of input 0 alone.
LoopBound(in0, in1) == NumElements(in0.dims)

\* Variant: the output is requested with the dimensions of input 1.
OutputDims_OfSecond(in0, in1) == in1.dims

\* dims passed to KernelContext_GetOutput: those of input 0.
OutputDims(in0, in1) == in0.dims

\* The loop reads data_1 at an index its buffer does not have.
ReadsPastInput1(in0, in1) ==
    /\ in0 # NullValue
    /\ in1 # NullValue
    /\ LoopBound(in0, in1) > Len(in1.data)

\* if (!input_0 || !input_1)
MissingInputs(in0, in1) == in0 = NullValue \/ in1 = NullValue

\* Variant: a missing input counts as an empty tensor.
MissingInputsResult_Empty(in0, in1) == Ret("OK", FreshOutput(<<0>>))

\* return CreateStatus(ORT_INVALID_ARGUMENT, "Missing inputs"), before
\* any output is requested.
MissingInputsResult(in0, in1) == Ret("ORT_INVALID_ARGUMENT", NoOutput)

\* The whole of ComputeImpl as a function of the kernel context, the
\* failing host call and the out-of-bounds behaviour.
ComputeImpl(in0, in1, fault, garbage, crash) ==
    IF fault = "KernelContext_GetInput_0" \/ fault = "KernelContext_GetInput_1"
    THEN Ret("ERR_KernelContext_GetInput", NoOutput)
    ELSE IF MissingInputs(in0, in1)
    THEN MissingInputsResult(in0, in1)
    ELSE IF fault \in {"GetTensorTypeAndShape", "GetDimensionsCount", "GetDimensions"}
    THEN Ret("ERR_" \o fault, NoOutput)
    ELSE LET dims == OutputDims(in0, in1)
             total_elements == LoopBound(in0, in1)
             fresh == FreshOutput(dims)
         IN  IF fault = "KernelContext_GetOutput"
             THEN Ret("ERR_KernelContext_GetOutput", NoOutput)
             ELSE IF fault = "GetOutput_null"
             THEN Ret("ORT_FAIL", NoOutput)
             ELSE IF fault \in {"GetTensorData_0", "GetTensorData_1", "GetTensorMutableData"}
             THEN Ret("ERR_" \o fault, fresh)
             ELSE IF crash /\ total_elements > Len(in1.data)
             THEN Ret(Crash,
                      [fresh EXCEPT !.data =
                          [i \in 1..Len(in1.data) |->
                              ElementOp(in0.data[i], in1.data[i])]])
             ELSE Ret("OK",
                      [fresh EXCEPT !.data =
                          [i \in 1..total_elements |->
                              ElementOp(in0.data[i], ReadInput1(in1, i, garbage))]])

\* Variant: a failed GetDimensions returns without releasing input_info.
ShapeInfoCalls_LeakOnDims(in0, in1, fault) ==
    IF fault \in {"KernelContext_GetInput_0", "KernelContext_GetInput_1",
                  "GetTensorTypeAndShape"} \/ MissingInputs(in0, in1)
    THEN <<>>
    ELSE IF fault = "GetDimensionsCount"
    THEN <<"GetTensorTypeAndShape", "GetDimensionsCount",
           "ReleaseTensorTypeAndShapeInfo">>
    ELSE IF fault = "GetDimensions"
    THEN <<"GetTensorTypeAndShape", "GetDimensionsCount", "GetDimensions">>
    ELSE <<"GetTensorTypeAndShape", "GetDimensionsCount", "GetDimensions",
           "ReleaseTensorTypeAndShapeInfo">>

\* The host calls ComputeImpl makes with input_info: GetTensorTypeAndShape
\* hands it out when it succeeds, the two queries read it, each of the two
\* failure returns and the normal path release it; no later call takes it.
ShapeInfoCalls(in0, in1, fault) ==
    IF fault \in {"KernelContext_GetInput_0", "KernelContext_GetInput_1",
                  "GetTensorTypeAndShape"} \/ MissingInputs(in0, in1)
    THEN <<>>
    ELSE IF fault = "GetDimensionsCount"
    THEN <<"GetTensorTypeAndShape", "GetDimensionsCount",
           "ReleaseTensorTypeAndShapeInfo">>
    ELSE <<"GetTensorTypeAndShape", "GetDimensionsCount", "GetDimensions",
           "ReleaseTensorTypeAndShapeInfo">>

CmpInit ==
    /\ cmp_pc = "idle"
    /\ cmp_kernel = 0
    /\ cmp_state = 0
    /\ input_0 = NullValue
    /\ input_1 = NullValue
    /\ host_fault = "none"
    /\ output = NoOutput
    /\ cmp_status = "none"
    /\ shape_info_calls = <<>>

\* Variant: an invocation uses the state up.
StateAfterCompute_Consumed(state) == [initialized |-> FALSE]

\* (void)compute_state: the ComputeState is neither read nor written.
StateAfterCompute(state) == state

\* The host invokes Compute of a live kernel with a live state on a
\* kernel context whose inputs are among inputs, with one of faults as the
\* failing host call; compute_state is cast to void.  A host that keeps a
\* log notes how the call ended with the state it passed.
ComputeCall(inputs, faults, logged) ==
    /\ HostIdle
    /\ \E st \in DOMAIN states, k \in DOMAIN kernels,
          in0 \in inputs, in1 \in inputs, fault \in faults :
         \E garbage \in (IF ReadsPastInput1(in0, in1) THEN Garbage
                          ELSE {CHOOSE g \in Garbage : TRUE}),
            crash \in (IF ReadsPastInput1(in0, in1) THEN BOOLEAN ELSE {FALSE}) :
         LET r == ComputeImpl(in0, in1, fault, garbage, crash) IN
         /\ cmp_pc' = "done"
         /\ cmp_kernel' = k
         /\ cmp_state' = st
         /\ states' = [states EXCEPT ![st] = StateAfterCompute(@)]
         /\ host_states' =
               [s \in DOMAIN host_states |->
                   IF logged /\ s = st
                   THEN [host_states[s] EXCEPT !.computes =
                            @ \cup {IF r.status = "OK" THEN "OK" ELSE "failed"}]
                   ELSE host_states[s]]
         /\ input_0' = in0
         /\ input_1' = in1
         /\ host_fault' = fault
         /\ output' = r.output
         /\ cmp_status' = r.status
         /\ shape_info_calls' = ShapeInfoCalls(in0, in1, fault)
    /\ UNCHANGED <<kernels, fused_nodes, node_compute_infos, ep_context_nodes,
                   cpl_pc, cpl_status>>
    /\ UNCHANGED <<st_pc, st_kernel, st_out, st_status, st_rel>>
    /\ UNCHANGED <<sessVars, enumVars, capVars>>

\* Compute on any kernel context and with any host call failing.
Compute == ComputeCall(Tensors \cup {NullValue}, HostCalls \cup {"none"}, FALSE)

\* Compute on one-element vectors or missing inputs, no host call failing,
\* called by a host that keeps a log.
Compute_Logged ==
    ComputeCall({[dims |-> <<1>>, data |-> <<v>>] : v \in Vals} \cup {NullValue},
                {"none"}, TRUE)

\* The host consumes the result; nothing of the invocation is kept.
Compute_Return ==
    /\ cmp_pc = "done"
    /\ cmp_status # Crash
    /\ cmp_pc' = "idle"
    /\ cmp_kernel' = 0
    /\ cmp_state' = 0
    /\ input_0' = NullValue
    /\ input_1' = NullValue
    /\ host_fault' = "none"
    /\ output' = NoOutput
    /\ cmp_status' = "none"
    /\ shape_info_calls' = <<>>
    /\ UNCHANGED <<sessVars, enumVars, capVars, kernelVars>>

\* ================================================================ threads

\* Thread t drives session t.  Each kind of object has as many free
\* addresses as there are threads, and new takes any free one.

\* What a step of a thread leaves alone: everything of the one-call-at-a-
\* time host.
T_Frame ==
    /\ UNCHANGED <<g_apis, ep_factories, mod_pc, mod_args, factories, num_factories,
                   mod_status, rel_factory, host_factories, out_of_memory, hookVars>>
    /\ UNCHANGED <<eps, ep_out, ep_status, sess_pc, ep_args, rel_ep, host_sessions>>
    /\ UNCHANGED <<enumVars, capVars, kernelVars, cmpVars>>

\* Variant: the sum is kept in a static.
Scratch_Static(t) == 1

\* data_out[i] = data_0[i] + data_1[i]: the sum is a temporary of the
\* calling thread.
Scratch(t) == t

\* CreateEpImpl called by thread t on the one factory: new SampleEp.
T_CreateEp(t) ==
    /\ t_pc[t] = "start"
    /\ \E id \in SessionIds \ DOMAIN t_heap.eps, logger \in Loggers :
         /\ t_heap' = [t_heap EXCEPT !.eps = AfterNew(@, id, NewEp("factory_1", logger))]
         /\ t_obj' = [t_obj EXCEPT ![t].ep = id]
    /\ t_pc' = [t_pc EXCEPT ![t] = "session"]
    /\ UNCHANGED <<t_io, t_tmp>>
    /\ T_Frame

\* CompileImpl called by thread t on its session for one claimed unit:
\* new SampleNodeComputeInfo.
T_Compile(t) ==
    /\ t_pc[t] = "session"
    /\ \E id \in SessionIds \ DOMAIN t_heap.kernels, op \in ClaimedOps :
         /\ t_heap' = [t_heap EXCEPT !.kernels =
                          AfterNew(@, id, NewKernel(op, OneSessionApis))]
         /\ t_obj' = [t_obj EXCEPT ![t].kernel = id]
    /\ t_pc' = [t_pc EXCEPT ![t] = "compiled"]
    /\ UNCHANGED <<t_io, t_tmp>>
    /\ T_Frame

\* CreateStateImpl called by thread t on its kernel: new ComputeState.
T_CreateState(t) ==
    /\ t_pc[t] = "compiled"
    /\ \E id \in SessionIds \ DOMAIN t_heap.states :
         /\ t_heap' = [t_heap EXCEPT !.states = AfterNew(@, id, NewComputeState)]
         /\ t_obj' = [t_obj EXCEPT ![t].state = id]
    /\ t_pc' = [t_pc EXCEPT ![t] = "state"]
    /\ UNCHANGED <<t_io, t_tmp>>
    /\ T_Frame

\* ComputeImpl called by thread t on its kernel, its state and a kernel
\* context of its own with two inputs of one shape: the entry, the loads
\* and the add of one element, its store, and the return after the loop.
T_Compute(t) ==
    /\ \/ /\ t_pc[t] = "state"
          /\ \E a, b \in {x \in Tensors : x.dims = <<2>>} :
               t_io' = [t_io EXCEPT ![t] = [in0 |-> a, in1 |-> b, i |-> 1, out |-> <<>>]]
          /\ t_pc' = [t_pc EXCEPT ![t] = "load"]
          /\ UNCHANGED t_tmp
       \/ /\ t_pc[t] = "load"
          /\ t_io[t].i <= LoopBound(t_io[t].in0, t_io[t].in1)
          /\ t_tmp' = [t_tmp EXCEPT ![Scratch(t)] =
                          ElementOp(t_io[t].in0.data[t_io[t].i],
                                    t_io[t].in1.data[t_io[t].i])]
          /\ t_pc' = [t_pc EXCEPT ![t] = "store"]
          /\ UNCHANGED t_io
       \/ /\ t_pc[t] = "store"
          /\ t_io' = [t_io EXCEPT ![t].out = Append(@, t_tmp[Scratch(t)]),
                                  ![t].i = @ + 1]
          /\ t_pc' = [t_pc EXCEPT ![t] = "load"]
          /\ UNCHANGED t_tmp
       \/ /\ t_pc[t] = "load"
          /\ t_io[t].i > LoopBound(t_io[t].in0, t_io[t].in1)
          /\ t_pc' = [t_pc EXCEPT ![t] = "computed"]
          /\ UNCHANGED <<t_io, t_tmp>>
    /\ UNCHANGED <<t_obj, t_heap>>
    /\ T_Frame

\* ReleaseStateImpl called by thread t on its state.
T_ReleaseState(t) ==
    /\ t_pc[t] = "computed"
    /\ t_heap' = [t_heap EXCEPT !.states = AfterDelete(@, t_obj[t].state)]
    /\ t_obj' = [t_obj EXCEPT ![t].state = 0]
    /\ t_pc' = [t_pc EXCEPT ![t] = "state_released"]
    /\ UNCHANGED <<t_io, t_tmp>>
    /\ T_Frame

\* ReleaseNodeComputeInfosImpl called by thread t on its kernel.
T_ReleaseNodeComputeInfos(t) ==
    /\ t_pc[t] = "state_released"
    /\ t_heap' = [t_heap EXCEPT !.kernels = AfterDelete(@, t_obj[t].kernel)]
    /\ t_obj' = [t_obj EXCEPT ![t].kernel = 0]
    /\ t_pc' = [t_pc EXCEPT ![t] = "kernels_released"]
    /\ UNCHANGED <<t_io, t_tmp>>
    /\ T_Frame

\* ReleaseEpImpl called by thread t on its session.
T_ReleaseEp(t) ==
    /\ t_pc[t] = "kernels_released"
    /\ t_heap' = [t_heap EXCEPT !.eps = AfterDelete(@, t_obj[t].ep)]
    /\ t_obj' = [t_obj EXCEPT ![t].ep = 0]
    /\ t_pc' = [t_pc EXCEPT ![t] = "done"]
    /\ UNCHANGED <<t_io, t_tmp>>
    /\ T_Frame

Init == SessInit /\ EnumInit /\ CapInit /\ KernelInit /\ CmpInit

NextCap ==
    \/ CreateEpImpl
    \/ CreateEp_Return
    \/ ReleaseEpImpl
    \/ ReleaseEp_Return
    \/ GetCapability_Enter
    \/ GetCapability_Iter
    \/ GetCapability_Exit
    \/ GetCapability_Return

SpecCap == Init /\ [][NextCap]_vars

\* Sessions that are created and released and never asked anything.
NextSess ==
    \/ CreateEpImpl
    \/ CreateEp_Return
    \/ ReleaseEpImpl
    \/ ReleaseEp_Return

SpecSess == Init /\ [][NextSess]_vars

NextEnum ==
    \/ HostDiscoverDevices
    \/ GetSupportedDevices_Enter
    \/ GetSupportedDevices_Iter
    \/ GetSupportedDevices_Exit
    \/ GetSupportedDevices_Return

SpecEnum == Init /\ [][NextEnum]_vars

NextCompute ==
    \/ CompileImpl
    \/ Compile_Return
    \/ ReleaseNodeComputeInfosImpl
    \/ CreateStateImpl
    \/ CreateState_Return
    \/ ReleaseStateImpl
    \/ ReleaseState_Return
    \/ Compute
    \/ Compute_Return
    \/ IsStreamAwareImpl
    \/ Hook_Return

SpecCompute == Init /\ [][NextCompute]_vars

\* Batches of any units compiled and released, no kernel invoked.
NextCompile ==
    \/ CompileImpl_AnyBatch
    \/ Compile_Return
    \/ ReleaseNodeComputeInfosImpl

SpecCompile == Init /\ [][NextCompile]_vars

\* Kernels whose states are created and released and never computed on.
NextState ==
    \/ CompileImpl_AnyBatch
    \/ Compile_Return
    \/ ReleaseNodeComputeInfosImpl
    \/ CreateStateImpl
    \/ CreateState_Return
    \/ ReleaseStateImpl
    \/ ReleaseState_Return

SpecState == Init /\ [][NextState]_vars

\* Compilation, states and compute for a host that may destroy the source
\* graphs as soon as Compile has returned.
NextDetached ==
    \/ NextCompute
    \/ DestroyGraphs

SpecDetached == Init /\ [][NextDetached]_vars

\* The allocating calls in a process that may run out of memory.
NextLowMemory ==
    \/ ExhaustMemory
    \/ CreateEpFactories
    \/ CreateEpFactories_Return
    \/ CreateEpImpl_Loaded
    \/ CreateEp_Return
    \/ CompileImpl
    \/ Compile_Return
    \/ CreateStateImpl
    \/ CreateState_Return

SpecLowMemory == Init /\ [][NextLowMemory]_vars

\* Two host threads, each running the life cycle of its own session.
NextThreads ==
    \E t \in SessionIds :
        \/ T_CreateEp(t)
        \/ T_Compile(t)
        \/ T_CreateState(t)
        \/ T_Compute(t)
        \/ T_ReleaseState(t)
        \/ T_ReleaseNodeComputeInfos(t)
        \/ T_ReleaseEp(t)

SpecThreads == Init /\ [][NextThreads]_vars

\* Capability queries on small graphs while factories, sessions, kernels
\* and states are live.
NextQuery ==
    \/ CreateEpFactories
    \/ CreateEpFactories_Return
    \/ CreateEpImpl_Loaded
    \/ CreateEp_Return
    \/ CompileImpl
    \/ Compile_Return
    \/ CreateStateImpl
    \/ CreateState_Return
    \/ GetCapability_Enter_Small
    \/ GetCapability_Iter
    \/ GetCapability_Exit
    \/ GetCapability_Return

SpecQuery == Init /\ [][NextQuery]_vars

\* Compilation, states and compute with the advisory callbacks of the
\* session in between.
NextAdvisory ==
    \/ NextCompute
    \/ GetPreferredDataLayoutImpl
    \/ ShouldConvertDataLayoutForOpImpl
    \/ SetDynamicOptionsImpl
    \/ OnRunStartImpl
    \/ OnRunEndImpl

SpecAdvisory == Init /\ [][NextAdvisory]_vars

\* Factories, their sessions and every callback that only returns a value.
NextHooks ==
    \/ CreateEpFactories
    \/ CreateEpFactories_Return
    \/ ReleaseEpFactory
    \/ ReleaseEpFactory_Return
    \/ CreateEpImpl_Loaded
    \/ CreateEp_Return
    \/ ReleaseEpImpl
    \/ ReleaseEp_Return
    \/ Factory_GetNameImpl
    \/ GetVendorImpl
    \/ GetVendorIdImpl
    \/ GetVersionImpl
    \/ Ep_GetNameImpl
    \/ ValidateCompiledModelCompatibilityInfoImpl
    \/ CreateAllocatorImpl
    \/ ReleaseAllocatorImpl
    \/ CreateDataTransferImpl
    \/ IsStreamAwareImpl
    \/ CreateSyncStreamForDeviceImpl
    \/ GetPreferredDataLayoutImpl
    \/ ShouldConvertDataLayoutForOpImpl
    \/ SetDynamicOptionsImpl
    \/ OnRunStartImpl
    \/ OnRunEndImpl
    \/ EpCreateAllocatorImpl
    \/ EpCreateSyncStreamForDeviceImpl
    \/ GetCompiledModelCompatibilityInfoImpl
    \/ Hook_Return

SpecHooks == Init /\ [][NextHooks]_vars

\* The whole life of the plugin's objects: factories, sessions, kernels
\* compiled on a session, invocation states, and their releases.
SpecLifecycle ==
    /\ Init
    /\ [][\/ CreateEpFactories
          \/ CreateEpFactories_Return
          \/ ReleaseEpFactory
          \/ ReleaseEpFactory_Return
          \/ CreateEpImpl_Loaded
          \/ CreateEp_Return
          \/ ReleaseEpImpl
          \/ ReleaseEp_Return
          \/ CompileImpl_OnSession
          \/ Compile_Return
          \/ ReleaseNodeComputeInfosImpl
          \/ CreateStateImpl
          \/ CreateState_Return
          \/ ReleaseStateImpl
          \/ ReleaseState_Return]_vars

\* Kernels of any batch, a state, and invocations that reuse the state.
SpecReuse ==
    /\ Init
    /\ [][\/ CompileImpl_AnyBatch
          \/ Compile_Return
          \/ ReleaseNodeComputeInfosImpl
          \/ CreateStateImpl
          \/ CreateState_Return
          \/ ReleaseStateImpl
          \/ ReleaseState_Return
          \/ Compute_Logged
          \/ Compute_Return]_vars

NextModule ==
    \/ CreateEpFactories
    \/ CreateEpFactories_Return
    \/ ReleaseEpFactory
    \/ ReleaseEpFactory_Return

SpecModule == Init /\ [][NextModule]_vars

\* ================================================================ claims
\* ---------------------------------------------------------- partitioner
\* Indices of the nodes of g that carry a supported operator, in list order.
ClaimableNodes(g) ==
    SelectSeq([j \in 1..Len(g) |-> j],
              LAMBDA j : g[j] # NullNode /\ IsSupportedOp(g[j]))

\* Node i of the queried graph belongs to a registered unit.
Claimed(i) == \E j \in 1..Len(fused) : \E k \in 1..Len(fused[j]) : fused[j][k] = i

CapSucceeded == cap_pc = "done" /\ cap_status = "OK"

\* C1: a capability query that returns success on a graph with k supported
\* nodes has made exactly k registration calls, the j-th call registering
\* the singleton unit of the j-th supported node in node-list order, so
\* every supported node is registered exactly once.
C1_OneUnitPerSupportedNode ==
    CapSucceeded =>
        LET S == ClaimableNodes(graph) IN
        /\ add_calls = Len(S)
        /\ Len(fused) = Len(S)
        /\ \A j \in 1..Len(S) : fused[j] = <<S[j]>>

C1_Witness ==
    /\ CapSucceeded
    /\ Len(graph) = MaxNodes
    /\ Len(fused) >= 2
    /\ Len(fused) < Len(graph)
    /\ ~IsSupportedOp(graph[1])

\* C2: a query on a graph with N = 0 nodes makes no registration call, and
\* returns success unless the host's own node-count call failed.
C2_EmptyGraph ==
    (cap_pc = "done" /\ Len(graph) = 0) =>
        /\ add_calls = 0
        /\ fused = <<>>
        /\ (cap_status # "ERR_Graph_GetNumNodes" => cap_status = "OK")

C2_Witness == cap_pc = "done" /\ Len(graph) = 0 /\ cap_status = "OK"

\* The elementwise binary arithmetic operators.
ElementwiseBinaryArithmetic == {"Add", "Sub", "Mul", "Div"}
TestGraph == <<"Add", "Sub", "Mul", "Div">>

\* C3 as stated: after a successful query a node is claimed if and only if
\* its operator is an elementwise binary arithmetic operator.
C3_Original ==
    CapSucceeded =>
        \A i \in 1..Len(graph) :
            Claimed(i) <=> graph[i] \in ElementwiseBinaryArithmetic

\* C3 amended: the allow-list is Add and Mul only; after a successful query
\* a node is claimed if and only if its operator is Add or Mul, and on the
\* test graph [Add, Sub, Mul, Div] exactly nodes 1 and 3 are claimed while
\* Sub and Div stay with the host; the queried session was created by a
\* CreateEp call that returned success.
C3_AllowListIsAddMul ==
    CapSucceeded =>
        /\ cap_this \in DOMAIN eps
        /\ ep_status = "OK"
        /\ \A i \in 1..Len(graph) : Claimed(i) <=> graph[i] \in {"Add", "Mul"}
        /\ graph = TestGraph => fused = << <<1>>, <<3>> >>

C3_Witness == CapSucceeded /\ graph = TestGraph /\ Claimed(3) /\ ~Claimed(2)

\* -------------------------------------------------------------- compute
\* The operator of the fused node the invoked kernel was compiled for
\* (the host knows it from the batch slot the kernel was written to).
KernelNodeOp(k) ==
    fused_nodes[CHOOSE i \in 1..Len(node_compute_infos) : node_compute_infos[i] = k]

BothInputsPresent == input_0 # NullValue /\ input_1 # NullValue

\* A completed invocation in which every host call succeeded.
ComputeRanUnfaulted == cmp_pc = "done" /\ host_fault = "none" /\ BothInputsPresent

\* The example of the spec: shape [1,4], A = [1,2,3,4], B = [10,20,30,40].
ExampleA == [dims |-> <<1, 4>>, data |-> <<1, 2, 3, 4>>]
ExampleB == [dims |-> <<1, 4>>, data |-> <<10, 20, 30, 40>>]
ExampleResult ==
    ComputeImpl(ExampleA, ExampleB, "none", CHOOSE g \in Garbage : TRUE, FALSE)

\* C4: on an Add kernel, with two inputs of identical shape and no failing
\* host call, compute returns success and the output has the inputs' shape
\* and holds A[i] + B[i] at every flattened index i; the example
\* [1,2,3,4] + [10,20,30,40] gives [11,22,33,44].
C4_AddKernelAddsElementwise ==
    /\ (ComputeRanUnfaulted /\ KernelNodeOp(cmp_kernel) = "Add"
            /\ input_0.dims = input_1.dims) =>
          /\ cmp_status = "OK"
          /\ output # NoOutput
          /\ output.dims = input_0.dims
          /\ output.size = NumElements(input_0.dims)
          /\ DOMAIN output.data = 1..NumElements(input_0.dims)
          /\ \A i \in 1..NumElements(input_0.dims) :
                output.data[i] = input_0.data[i] + input_1.data[i]
    /\ ExampleResult.status = "OK"
    /\ ExampleResult.output.dims = <<1, 4>>
    /\ ExampleResult.output.data = <<11, 22, 33, 44>>

C4_Witness ==
    /\ ComputeRanUnfaulted
    /\ KernelNodeOp(cmp_kernel) = "Add"
    /\ input_0.dims = <<1, 2>>
    /\ input_1.dims = <<1, 2>>
    /\ input_0.data = <<1, 2>>
    /\ input_1.data = <<2, 2>>
    /\ output # NoOutput
    /\ output.data = <<3, 4>>

\* C5 as stated: when the two inputs differ in shape or rank, compute
\* fails with InvalidArgument and no output has been requested or written.
C5_Original ==
    (ComputeRanUnfaulted /\ input_0.dims # input_1.dims) =>
        /\ cmp_status = "ORT_INVALID_ARGUMENT"
        /\ output = NoOutput

\* C6 as stated: the kernel compiled for a claimed node computes that
\* node's operator: A[i] + B[i] for an Add node, A[i] * B[i] for a Mul node.
C6_Original ==
    (ComputeRanUnfaulted /\ cmp_status = "OK" /\ input_0.dims = input_1.dims) =>
        \A i \in 1..NumElements(input_0.dims) :
            output.data[i] =
                IF KernelNodeOp(cmp_kernel) = "Mul"
                THEN input_0.data[i] * input_1.data[i]
                ELSE input_0.data[i] + input_1.data[i]

\* -------------------------------------------------------------- factory
\* Handles of the CPU devices of list d, in list order.
CpuDevices(d) == SelectSeq([j \in 1..Len(d) |-> j], LAMBDA j : d[j] = "CPU")

EnumDone == enum_pc = "done"

\* Slot j of the output holds a live binding of this factory to device hw.
SlotBinds(j, hw) ==
    /\ ep_devices[j] \in DOMAIN host_ep_devices
    /\ host_ep_devices[ep_devices[j]].device = hw
    /\ host_ep_devices[ep_devices[j]].factory = enum_this

\* C7: with capacity for every CPU device, enumerate fails only if a host
\* registration call fails, and on success the count is the number of CPU
\* devices, slot j holds a binding registered through this factory for the
\* j-th CPU device in list order, and no other slot is written.
C7_OneBindingPerCpuDevice ==
    (EnumDone /\ max_ep_devices >= Len(CpuDevices(devices))) =>
        LET cpus == CpuDevices(devices) IN
        /\ enum_status \in {"OK", "ERR_CreateEpDevice"}
        /\ enum_status = "OK" =>
              /\ num_ep_devices = Len(cpus)
              /\ \A j \in 1..Len(cpus) : SlotBinds(j, cpus[j])
              /\ \A j \in (Len(cpus) + 1)..max_ep_devices : ep_devices[j] = 0

C7_Witness ==
    /\ EnumDone
    /\ enum_status = "OK"
    /\ devices = <<"GPU", "CPU", "CPU">>
    /\ max_ep_devices = 3
    /\ num_ep_devices = 2

\* C8 as stated: with capacity below the number of matching devices,
\* enumerate fails with ResourceExhausted.
C8_Original ==
    (EnumDone /\ max_ep_devices < Len(CpuDevices(devices))) =>
        enum_status = "ResourceExhausted"

\* C8 amended: with capacity below the number of CPU devices enumerate
\* truncates instead of failing: unless a host registration call fails it
\* returns success with exactly capacity bindings, slot j bound to the
\* j-th CPU device in list order.
C8_TruncatesToCapacity ==
    (EnumDone /\ max_ep_devices < Len(CpuDevices(devices))) =>
        LET cpus == CpuDevices(devices) IN
        /\ enum_status \in {"OK", "ERR_CreateEpDevice"}
        /\ enum_status = "OK" =>
              /\ num_ep_devices = max_ep_devices
              /\ \A j \in 1..max_ep_devices : SlotBinds(j, cpus[j])

C8_Witness ==
    /\ EnumDone
    /\ enum_status = "OK"
    /\ max_ep_devices = 1
    /\ Len(CpuDevices(devices)) = 2
    /\ num_ep_devices = 1

\* The previous call had the same factory and capacity as the one that
\* just completed (the device list never changes), and both succeeded.
SameCallTwice ==
    /\ EnumDone
    /\ enum_prev.called
    /\ enum_prev.this = enum_this
    /\ enum_prev.capacity = max_ep_devices
    /\ enum_prev.status = "OK"
    /\ enum_status = "OK"

\* C9: two successful calls with the same device list, factory and
\* capacity return the same count and, slot by slot, bindings with the same
\* attributes (device, factory, metadata, options) that are different
\* objects, all alive together; and the bindings of the last returned call
\* stay alive when the host releases those of the call before it.
C9_EnumerateIdempotent ==
    /\ SameCallTwice =>
          /\ num_ep_devices = enum_prev.count
          /\ \A j \in 1..num_ep_devices :
                /\ ep_devices[j] \in DOMAIN host_ep_devices
                /\ enum_prev.ep_devices[j] \in DOMAIN host_ep_devices
                /\ host_ep_devices[ep_devices[j]] = host_ep_devices[enum_prev.ep_devices[j]]
          /\ \A j, k \in 1..num_ep_devices : ep_devices[j] # enum_prev.ep_devices[k]
    /\ enum_prev.called =>
          \A j \in 1..enum_prev.count : enum_prev.ep_devices[j] \in DOMAIN host_ep_devices

C9_Witness == SameCallTwice /\ num_ep_devices >= 2 /\ Len(devices) > num_ep_devices

\* C10 as stated: an enumerate call that returns a failure reports a count
\* of 0 and leaves no binding of that call in the output.
C10_Original ==
    (EnumDone /\ enum_status # "OK") =>
        /\ num_ep_devices = 0
        /\ \A j \in 1..Len(ep_devices) : ep_devices[j] = 0

\* -------------------------------------------------------------- session
CreateEpReturned == sess_pc = "done"

\* The device list of the CreateEp call holds a device the factory supports.
HasUsableDevice ==
    \E j \in 1..Len(ep_args.devices) : IsSupportedDevice(ep_args.devices[j])

\* C11 as stated: a CreateEp call whose device list holds no supported
\* device (the empty list included) returns UnsupportedDevice and leaves no
\* session object behind.
C11_Original ==
    (CreateEpReturned /\ ~HasUsableDevice) =>
        /\ ep_status = "ERR_UnsupportedDevice"
        /\ ep_out = 0

\* C12: a CreateEp call whose device list holds at least one supported
\* device returns success and a live session, whatever other devices,
\* metadata pairs and session options come with it.
C12_IgnoresWhatItDoesNotUnderstand ==
    (CreateEpReturned /\ HasUsableDevice) =>
        /\ ep_status = "OK"
        /\ ep_out \in DOMAIN eps

C12_Witness ==
    /\ CreateEpReturned
    /\ ep_status = "OK"
    /\ ep_out \in DOMAIN eps
    /\ \E j, k \in 1..Len(ep_args.devices) :
         ep_args.devices[j] = "CPU" /\ ep_args.devices[k] = "NPU"
    /\ ep_args.ep_metadata_pairs = "unknown_pairs"
    /\ ep_args.session_options = "custom_options"

\* C13: every CreateEp call that returns success hands out an object that
\* was not live before the call and holds the factory and the logger of
\* that call, and leaves every session that was live as it was; a
\* ReleaseEp call removes the session it is given and leaves every other
\* live session in place with its fields unchanged.
C13_SessionsAreSeparate ==
    [][/\ (CreateEpImpl /\ ep_status' = "OK") =>
            /\ ep_out' \in DOMAIN eps' \ DOMAIN eps
            /\ eps'[ep_out'].factory_ = ep_args'.this
            /\ eps'[ep_out'].session_logger_ = ep_args'.logger
            /\ \A e \in DOMAIN eps : e \in DOMAIN eps' /\ eps'[e] = eps[e]
       /\ \A id \in SessionIds :
            ReleaseEp(id) =>
                \A e \in DOMAIN eps \ {id} : e \in DOMAIN eps' /\ eps'[e] = eps[e]
      ]_vars

\* Two sessions of different factories and loggers were live; one has just
\* been released and the other is still there.
C13_Witness ==
    /\ sess_pc = "released"
    /\ rel_ep = 1
    /\ DOMAIN eps = {2}
    /\ eps[2] = NewEp("factory_2", "session_logger_2")

\* C14: after ReleaseEp on a session, queried or not, that session object
\* is gone.
C14_ReleaseLeavesNoSession ==
    sess_pc = "released" => rel_ep \notin DOMAIN eps

\* A session has been released; under SpecSess no session ever ran a
\* capability query or compiled anything.
C14_Witness ==
    /\ sess_pc = "released"
    /\ rel_ep # 0
    /\ rel_ep \notin DOMAIN eps
    /\ cap_pc = "idle"
    /\ kernels = <<>>

\* ------------------------------------------------------------- compiler
CompileReturned == cpl_pc = "done"

\* C15: a Compile call on a batch of M units returns success having made
\* exactly M kernels, slot i holding the i-th of them and no two slots the
\* same kernel, and with every EPContext slot null when that array was
\* supplied; for M = 0 no kernel exists afterwards.
C15_OneKernelPerUnit ==
    CompileReturned =>
        LET M == Len(fused_nodes) IN
        /\ cpl_status = "OK"
        /\ Cardinality(DOMAIN kernels) = M
        /\ Len(node_compute_infos) = M
        /\ \A i \in 1..M : node_compute_infos[i] \in DOMAIN kernels
        /\ \A i, j \in 1..M : i # j => node_compute_infos[i] # node_compute_infos[j]
        /\ ep_context_nodes.supplied =>
              /\ Len(ep_context_nodes.slots) = M
              /\ \A i \in 1..M : ep_context_nodes.slots[i] = NullNode
        /\ M = 0 => kernels = <<>>

C15_Witness ==
    /\ CompileReturned
    /\ cpl_status = "OK"
    /\ Len(fused_nodes) = MaxUnits
    /\ ep_context_nodes.supplied
    /\ Cardinality({node_compute_infos[i] : i \in 1..MaxUnits}) = MaxUnits

\* A unit the partitioner would never have claimed: a null fused node or
\* an operator off the allow-list.
InvalidUnits == {i \in 1..Len(fused_nodes) : fused_nodes[i] \notin ClaimedOps}

\* C16 as stated: a Compile call on a batch with exactly one invalid unit
\* returns a failure, and the slots are either all empty or hold kernels
\* for exactly the valid units.
C16_Original ==
    (CompileReturned /\ Cardinality(InvalidUnits) = 1) =>
        /\ cpl_status # "OK"
        /\ \/ kernels = <<>>
           \/ Cardinality(DOMAIN kernels) = Len(fused_nodes) - 1

\* ---------------------------------------------------------------- state
LiveStates == Cardinality(DOMAIN states)

\* C17: CreateState returns success with a state that was not live before
\* and makes the number of live states one more; ReleaseState on a state,
\* computed on or not, removes that state and makes the number one less: a
\* CreateState/ReleaseState pair with nothing in between brings the number
\* of live states back to what it was.
C17_CreateReleaseBalanced ==
    [][/\ CreateStateImpl =>
            /\ st_status' = "OK"
            /\ st_out' \in DOMAIN states' \ DOMAIN states
            /\ Cardinality(DOMAIN states') = LiveStates + 1
       /\ \A k \in DOMAIN kernels, id \in StateIds :
            ReleaseState(k, id) =>
                /\ id \notin DOMAIN states'
                /\ Cardinality(DOMAIN states') = LiveStates - 1
      ]_vars

\* A state has been released again; under SpecState nothing is ever
\* computed, and the count is back at what it was before the state was
\* created.
C17_Witness ==
    /\ st_pc = "released"
    /\ st_rel \in StateIds
    /\ st_kernel \in DOMAIN kernels
    /\ LiveStates = 0
    /\ cmp_pc = "idle"

\* ------------------------------------------------- compute, error paths
\* A completed invocation that returned an error to the host.
ComputeFailed == cmp_pc = "done" /\ cmp_status \notin {"OK", Crash}

\* What the operator of a claimed node yields for one pair of elements.
NodeOpResult(op, a, b) == IF op = "Mul" THEN a * b ELSE a + b

\* What the next invocation with inputs a and b returns when no host call fails.
NextResult(a, b) == ComputeImpl(a, b, "none", CHOOSE g \in Garbage : TRUE, FALSE)

\* C18 as stated: when compute has returned an error, the kernel and the
\* state it was called with are still live and as they were made, and the
\* next invocation of that kernel on any two inputs of the same shape
\* returns success with the result of the kernel's node operator.
C18_Original ==
    ComputeFailed =>
        /\ cmp_kernel \in DOMAIN kernels
        /\ kernels[cmp_kernel] = NewKernel(KernelNodeOp(cmp_kernel), OneSessionApis)
        /\ cmp_state \in DOMAIN states
        /\ states[cmp_state] = NewComputeState
        /\ \A a, b \in Tensors :
              a.dims = b.dims =>
                 /\ NextResult(a, b).status = "OK"
                 /\ \A i \in 1..NumElements(a.dims) :
                       NextResult(a, b).output.data[i] =
                          NodeOpResult(KernelNodeOp(cmp_kernel), a.data[i], b.data[i])

\* An input tensor of the invocation is absent.
InputMissing == input_0 = NullValue \/ input_1 = NullValue

\* C19: an invocation with an absent input returns InvalidArgument unless
\* the host's own input lookup failed, and in either case no output tensor
\* has been requested or written.
C19_MissingInputIsInvalidArgument ==
    (cmp_pc = "done" /\ InputMissing) =>
        /\ output = NoOutput
        /\ host_fault \notin {"KernelContext_GetInput_0", "KernelContext_GetInput_1"}
              => cmp_status = "ORT_INVALID_ARGUMENT"

C19_Witness ==
    /\ cmp_pc = "done"
    /\ input_0 \in Tensors
    /\ input_1 = NullValue
    /\ host_fault = "none"
    /\ cmp_status = "ORT_INVALID_ARGUMENT"
    /\ output = NoOutput

\* --------------------------------------------------------------- module
\* The host's API table exists for the version the library asks for.
ApiResolved(api_base) == GetApi(api_base) # "nullptr"

\* C20: CreateEpFactories on a host whose API table resolves: with room for
\* at least one factory it returns success, has created exactly one
\* factory, written it to slot 0 and no other slot, and set the count to 1;
\* with no room it returns an error, has created no factory, written no
\* slot and not set the count.  ReleaseEpFactory returns success and has
\* destroyed the factory it was given and no other.
C20_ModuleEntryPoints ==
    [][/\ (CreateEpFactories /\ ApiResolved(mod_args'.ort_api_base)) =>
            IF mod_args'.max_factories >= 1
            THEN /\ mod_status' = "OK"
                 /\ num_factories' = 1
                 /\ factories'[1] \in DOMAIN ep_factories' \ DOMAIN ep_factories
                 /\ DOMAIN ep_factories' = DOMAIN ep_factories \cup {factories'[1]}
                 /\ \A f \in DOMAIN ep_factories : ep_factories'[f] = ep_factories[f]
                 /\ \A j \in 2..Len(factories') : factories'[j] = "unwritten"
            ELSE /\ mod_status' = "ORT_INVALID_ARGUMENT"
                 /\ ep_factories' = ep_factories
                 /\ factories' = <<>>
                 /\ num_factories' = -1
       /\ ReleaseEpFactory =>
            /\ mod_status' = "OK"
            /\ rel_factory' \in DOMAIN ep_factories
            /\ DOMAIN ep_factories' = DOMAIN ep_factories \ {rel_factory'}
            /\ \A f \in DOMAIN ep_factories' : ep_factories'[f] = ep_factories[f]
      ]_vars

\* A call with room for several factories has returned success with one
\* factory in slot 0 while an earlier factory is still live.
C20_Witness ==
    /\ mod_pc = "done"
    /\ mod_status = "OK"
    /\ mod_args.max_factories = MaxCapacity
    /\ num_factories = 1
    /\ factories[1] \in DOMAIN ep_factories
    /\ factories[2] = "unwritten"
    /\ Cardinality(DOMAIN ep_factories) = 2

\* Everything but the record of the value-returning callback in flight.
OutsideHook ==
    <<g_apis, ep_factories, mod_pc, mod_args, factories, num_factories, mod_status,
      rel_factory, host_factories, eps, ep_out, ep_status, sess_pc, ep_args, rel_ep,
      host_sessions, enumVars, capVars, kernelVars, cmpVars>>

\* The callback call has just returned to the host.
HookReturned(call) == hook_pc = "done" /\ hook_call = call

\* What the host expects a factory registered under R to be called.
ExpectedName(R) == R \o "PluginExecutionProvider"

\* C21: identify is pure and stable.  Whenever an identification callback
\* of a factory the host registered under R has returned, it has returned
\* R followed by "PluginExecutionProvider" as name, "SampleVendor" as
\* vendor, 0x1234 as vendor id and "1.0.0" as version, in every state; a
\* session reports the name of the factory the host asked it from; and the
\* step that made the call changed nothing but the record of the call.
C21_IdentifyIsStable ==
    [][(hook_pc = "idle" /\ hook_pc' = "done" /\
        hook_call' \in {"SampleEpFactory::GetName", "GetVendor", "GetVendorId",
                        "GetVersion", "SampleEp::GetName"})
       => /\ UNCHANGED OutsideHook
          /\ hook_call' = "SampleEpFactory::GetName"
             => hook_result'.text = ExpectedName(host_factories[hook_this'.factory])
          /\ hook_call' = "GetVendor" => hook_result'.text = "SampleVendor"
          /\ hook_call' = "GetVendorId" => hook_result'.number = 4660
          /\ hook_call' = "GetVersion" => hook_result'.text = "1.0.0"
          /\ hook_call' = "SampleEp::GetName"
             => hook_result'.text =
                    ExpectedName(host_factories[host_sessions[hook_this'.ep]])]_vars

\* C21 witness: two factories with different registration names are live
\* and a session of the second-registered name has just reported its name.
C21_Witness ==
    /\ HookReturned("SampleEp::GetName")
    /\ \E f, g \in DOMAIN host_factories : host_factories[f] # host_factories[g]
    /\ hook_result.text = "OtherEPPluginExecutionProvider"

\* C22: the execution mode is fixed and synchronous.  Whenever a factory
\* has been asked whether it is stream-aware it has answered no, whatever
\* the factory and whatever kernels and states are live; and whenever
\* Compute has returned success, every element of the output tensor has
\* been written before the return.
C22_AlwaysSynchronous ==
    /\ HookReturned("IsStreamAware") => hook_result.flag = FALSE
    /\ (cmp_pc = "done" /\ cmp_status = "OK")
       => /\ output # NoOutput
          /\ Len(output.data) = output.size

\* C22 witness: a factory has just answered the question while a kernel
\* and an invocation state are live.
C22_Witness ==
    /\ HookReturned("IsStreamAware")
    /\ hook_this.factory = "factory_2"
    /\ kernels # <<>>
    /\ states # <<>>

\* C23: the advisory session callbacks have no opinion and no effect.  The
\* step in which one of them is called and returns changes nothing but the
\* record of that call (so kernels, states, outputs and sessions are what
\* they were), and it returns success with: NCHW, the layout the host
\* assumes of a backend without a preference, for the preferred layout;
\* -1, "let the host decide", for every domain, operator and target
\* layout; and nothing else for option updates and run notifications.
C23_AdvisoryHooksAreNoOps ==
    [][(hook_pc = "idle" /\ hook_pc' = "done" /\
        hook_call' \in {"GetPreferredDataLayout", "ShouldConvertDataLayoutForOp",
                        "SetDynamicOptions", "OnRunStart", "OnRunEnd"})
       => /\ UNCHANGED OutsideHook
          /\ hook_result'.status = "OK"
          /\ hook_call' = "GetPreferredDataLayout" => hook_result'.text = "NCHW"
          /\ hook_call' = "ShouldConvertDataLayoutForOp" => hook_result'.number = -1]_vars

\* C23 witness: the conversion question has just been answered for a
\* claimed operator and the NHWC layout while a kernel and a state are live.
C23_Witness ==
    /\ HookReturned("ShouldConvertDataLayoutForOp")
    /\ hook_args = <<"com.microsoft", "Mul", "NHWC">>
    /\ hook_result.number = -1
    /\ kernels # <<>>
    /\ states # <<>>

\* C24: the optional capability callbacks say "not supported" by handing
\* back no object, never by an error.  Whenever the allocator, data
\* transfer or sync stream callback of a factory or of a session has
\* returned, it has returned success and written a null object, for every
\* input and in every state; and whenever the compiled-model validator has
\* returned, it has returned success and written not-applicable.
C24_OptionalHooksAreAbsent ==
    /\ (hook_pc = "done" /\
        hook_call \in {"CreateAllocator", "CreateDataTransfer", "CreateSyncStreamForDevice",
                       "EpCreateAllocator", "EpCreateSyncStreamForDevice"})
       => hook_result.status = "OK" /\ hook_result.object = "nullptr"
    /\ HookReturned("ValidateCompiledModelCompatibilityInfo")
       => /\ hook_result.status = "OK"
          /\ hook_result.text \in {"EP_SUPPORTED_OPTIMAL", "EP_UNSUPPORTED",
                                   "EP_NOT_APPLICABLE"}
          /\ hook_result.text = "EP_NOT_APPLICABLE"

\* C24 witness: a factory with a live session has just been asked for an
\* allocator for device memory, with options.
C24_Witness ==
    /\ HookReturned("CreateAllocator")
    /\ hook_args = <<"device_memory", "key_1", "value_1">>
    /\ hook_this.factory \in DOMAIN ep_factories
    /\ \E e \in DOMAIN eps : eps[e].factory_ = hook_this.factory

\* The singleton units of the supported nodes among the first n nodes of g.
UnitsOfPrefix(g, n) ==
    LET S == ClaimableNodes(SubSeq(g, 1, n)) IN [j \in 1..Len(S) |-> <<S[j]>>]

\* C25: a host call that fails during a capability query (node count, node
\* list, operator type or unit registration) ends the query in that step
\* with the failed call's status; the failing step registers nothing and
\* does not move on, the failed call is made once, the units registered
\* before it, those of the supported nodes in front of the failing node,
\* are still registered when the query returns, and after the return of
\* the status the only step left is the host taking the result.
C25_HostFailureStopsTheQuery ==
    [][/\ (cap_pc # "done" /\ cap_pc' = "done" /\ cap_fault' # "none")
          => /\ cap_status' = "ERR_" \o cap_fault'
             /\ fused' = fused
             /\ cap_i' = cap_i
             /\ add_calls' = add_calls +
                    (IF cap_fault' = "EpGraphSupportInfo_AddNodesToFuse" THEN 1 ELSE 0)
             /\ add_calls' <= Len(fused') + 1
             /\ fused' = UnitsOfPrefix(graph', cap_i' - 1)
       /\ (cap_pc # "done" /\ cap_pc' = "done" /\ cap_fault' = "none")
          => cap_status' = "OK"
       /\ cap_pc = "done" => (cap_pc' = "idle" /\ fused' = <<>>)]_vars

\* C25 witness: registration of a unit has failed after an earlier unit
\* was registered and before a later supported node was reached.
C25_Witness ==
    /\ cap_pc = "done"
    /\ cap_fault = "EpGraphSupportInfo_AddNodesToFuse"
    /\ cap_status = "ERR_EpGraphSupportInfo_AddNodesToFuse"
    /\ Len(fused) >= 1
    /\ cap_i < Len(graph)
    /\ IsSupportedOp(graph[cap_i + 1])

\* A step of a capability query: its entry, an iteration of its scan, its
\* exit or its return to the host.
QueryStep == cap_pc # "idle" \/ cap_pc' # "idle"

ComputeOutcomes ==
    {ComputeImpl(input_0, input_1, host_fault, g, c) : g \in Garbage, c \in BOOLEAN}

\* C27: compilation retains nothing of the source graphs.  The step in
\* which Compile returns leaves every session as it was and the kernels it
\* made hold the two API tables and nothing else, in particular no node;
\* and whether or not the host has since destroyed the graphs, CreateState
\* returns success with a new state, Compute returns what ComputeImpl gives
\* for its inputs, and ReleaseState deletes the state it is given.
C27_NothingOfTheGraphIsKept ==
    [][/\ (cpl_pc = "idle" /\ cpl_pc' = "done")
          => /\ UNCHANGED sessVars
             /\ \A k \in DOMAIN kernels' : DOMAIN kernels'[k] = {"ort_api", "ep_api"}
       /\ (st_pc = "idle" /\ st_pc' = "created")
          => /\ st_status' = "OK"
             /\ st_out' \notin DOMAIN states
             /\ DOMAIN states' = DOMAIN states \cup {st_out'}
             /\ states'[st_out'] = [initialized |-> TRUE]
       /\ (cmp_pc = "idle" /\ cmp_pc' = "done")
          => [status |-> cmp_status', output |-> output'] \in ComputeOutcomes'
       /\ (st_pc = "idle" /\ st_pc' = "released")
          => /\ st_rel' \in DOMAIN states
             /\ DOMAIN states' = DOMAIN states \ {st_rel'}]_vars

\* C27 witness: Compute has returned success with its output written on a
\* kernel whose graphs the host had destroyed.
C27_Witness ==
    /\ cmp_pc = "done"
    /\ cmp_status = "OK"
    /\ output # NoOutput
    /\ kernels # <<>>
    /\ fused_nodes = <<>>

\* The threads whose life cycle is at one of the positions pcs.
ThreadsAt(pcs) == {t \in SessionIds : t_pc[t] \in pcs}

\* What a Compute call on thread t's inputs returns when it runs alone.
AloneOutput(t) == NextResult(t_io[t].in0, t_io[t].in1).output.data

\* C28: two sessions driven by two host threads do not disturb each other.
\* In every state of every interleaving of the two life cycles
\* (createSession, compile, createState, compute, releaseState, release
\* kernels, releaseSession), the output a thread's Compute has written so
\* far is the leading part of what the same call gives when run alone, and
\* all of it once the call has returned; the live sessions, kernels and
\* states are exactly those the threads created and have not released,
\* each still as it was created and none shared by the two threads; and
\* when both threads are done nothing is live.
C28_ThreadsDoNotInterfere ==
    /\ \A t \in ThreadsAt({"load", "store"}) :
         t_io[t].out = SubSeq(AloneOutput(t), 1, t_io[t].i - 1)
    /\ \A t \in ThreadsAt({"computed", "state_released", "kernels_released", "done"}) :
         t_io[t].out = AloneOutput(t)
    /\ DOMAIN t_heap.eps = {t_obj[t].ep : t \in SessionIds \ ThreadsAt({"start", "done"})}
    /\ DOMAIN t_heap.kernels =
          {t_obj[t].kernel : t \in ThreadsAt({"compiled", "state", "load", "store",
                                              "computed", "state_released"})}
    /\ DOMAIN t_heap.states =
          {t_obj[t].state : t \in ThreadsAt({"state", "load", "store", "computed"})}
    /\ \A t, u \in SessionIds :
         t # u => /\ t_obj[t].ep \in DOMAIN t_heap.eps => t_obj[t].ep # t_obj[u].ep
                  /\ t_obj[t].kernel \in DOMAIN t_heap.kernels
                     => t_obj[t].kernel # t_obj[u].kernel
                  /\ t_obj[t].state \in DOMAIN t_heap.states
                     => t_obj[t].state # t_obj[u].state
    /\ \A e \in DOMAIN t_heap.eps : t_heap.eps[e].factory_ = "factory_1"
    /\ \A k \in DOMAIN t_heap.kernels :
         t_heap.kernels[k] = [ort_api |-> "ort_api", ep_api |-> "ep_api"]
    /\ \A s \in DOMAIN t_heap.states : t_heap.states[s] = [initialized |-> TRUE]
    /\ ThreadsAt({"done"}) = SessionIds
       => t_heap = [eps |-> <<>>, kernels |-> <<>>, states |-> <<>>]

\* C28 witness: both threads are inside Compute at the same time, each
\* about to store a sum, and the two sums differ.
C28_Witness ==
    /\ t_pc[1] = "store"
    /\ t_pc[2] = "store"
    /\ t_io[1].i = 2
    /\ t_io[2].i = 1
    /\ t_tmp[1] # t_tmp[2]

\* A call that has to allocate has returned, or has ended, with no memory left.
AllocationFailedIn ==
    {c \in {"CreateEpFactories", "CreateEp", "Compile", "CreateState"} :
        /\ out_of_memory
        /\ \/ c = "CreateEpFactories" /\ mod_pc = "done" /\ mod_args.max_factories >= 1
              /\ mod_status # ModuleCrash
           \/ c = "CreateEp" /\ sess_pc = "done"
           \/ c = "Compile" /\ cpl_pc = "done" /\ Len(fused_nodes) > 0
           \/ c = "CreateState" /\ st_pc = "created"}

\* The status the call c has handed to the host.
StatusOf(c) ==
    IF c = "CreateEpFactories" THEN mod_status
    ELSE IF c = "CreateEp" THEN ep_status
    ELSE IF c = "Compile" THEN cpl_status
    ELSE st_status

\* C29 as stated: when an allocation fails inside module load,
\* createSession, compile or createState, the call returns a
\* ResourceExhausted error to the host; the process is not terminated and
\* no exception leaves the call.
C29_Original ==
    \A c \in AllocationFailedIn :
        /\ StatusOf(c) # Terminated
        /\ StatusOf(c) = "ResourceExhausted"

\* C30: a capability query is one forward scan.  Whenever the scan stands
\* in front of node i, the units registered so far are exactly the
\* singletons of the supported nodes among the first i - 1 nodes, in node
\* order, one registration call each, so no node is in two units; every
\* iteration moves to the next node of the same list, never back and never
\* to the same node again; and a query starts at the first node with no
\* unit registered, whatever the queries before it did.
C30_SingleForwardScan ==
    [][/\ cap_pc' = "scan"
          => /\ cap_i' \in 1..(Len(graph') + 1)
             /\ fused' = UnitsOfPrefix(graph', cap_i' - 1)
             /\ add_calls' = Len(fused')
             /\ \A j, k \in 1..Len(fused') :
                  /\ Len(fused'[j]) = 1
                  /\ j # k => fused'[j][1] # fused'[k][1]
       /\ (cap_pc = "scan" /\ cap_pc' = "scan")
          => /\ cap_i' = cap_i + 1
             /\ graph' = graph
       /\ (cap_pc = "idle" /\ cap_pc' = "scan")
          => /\ cap_i' = 1
             /\ fused' = <<>>
             /\ add_calls' = 0
       /\ cap_pc' = "idle"
          => /\ fused' = <<>>
             /\ cap_i' = 0
             /\ add_calls' = 0]_vars

\* C30 witness: the scan stands in front of the last node of a graph of
\* the largest size with two units registered and one node skipped.
C30_Witness ==
    /\ cap_pc = "scan"
    /\ Len(graph) = MaxNodes
    /\ cap_i = MaxNodes
    /\ Len(fused) = 2
    /\ \E i \in 1..(cap_i - 1) : graph[i] # NullNode /\ ~IsSupportedOp(graph[i])

\* ------------------------------------------------------------ termination

\* The callback runs on the calling host thread until it returns: a loop
\* iteration or the loop exit that can be taken is taken.
\* The host asks about graphs whose nodes are a supported operator, an
\* unsupported one or a null entry: one node for each way through the
\* loop body.
SpecScanFair ==
    /\ Init
    /\ [][\/ CreateEpImpl
          \/ CreateEp_Return
          \/ ReleaseEpImpl
          \/ ReleaseEp_Return
          \/ GetCapability_Begin(SeqsUpTo({"Add", "Sub", NullNode}, MaxNodes))
          \/ GetCapability_Iter
          \/ GetCapability_Exit
          \/ GetCapability_Return]_vars
    /\ WF_vars(GetCapability_Iter)
    /\ WF_vars(GetCapability_Exit)

\* C31: every capability query terminates.  Once the scan loop is entered
\* it reaches the return of the callback, with success or with the status
\* of a failed host call, whatever the node list and whichever host calls
\* fail; at every point of the query at most N nodes have been inspected
\* and at most N registration calls made, N being the number of nodes.
C31_QueryTerminates ==
    /\ [](cap_pc \in {"scan", "done"}
            => /\ num_nodes <= Len(graph)
               /\ cap_i <= num_nodes + 1
               /\ add_calls <= num_nodes
               /\ add_calls <= cap_i)
    /\ (cap_pc = "scan" ~> cap_pc = "done")

\* C31 witness: a query over a graph of the largest size has returned
\* success after one registration call per node.
C31_Witness ==
    /\ cap_pc = "done"
    /\ cap_status = "OK"
    /\ num_nodes = MaxNodes
    /\ cap_i = MaxNodes + 1
    /\ add_calls = MaxNodes

\* -------------------------------------------------------------- lifecycle

\* The elements of a sequence.
ElementsOf(s) == {s[i] : i \in 1..Len(s)}

\* C32: object accounting.  A successful create adds exactly the object it
\* hands back, which was not live before; a release removes exactly the
\* object it was given; ReleaseNodeComputeInfos given the M kernels of a
\* batch removes exactly those M; no other step changes which objects are
\* live.  So the live factories and sessions are the ones the host holds,
\* the live kernels are the ones in the host's array, and a host that has
\* released everything it was given leaves no object behind.
C32_ObjectAccounting ==
    [][/\ DOMAIN ep_factories' =
            IF mod_pc = "idle" /\ mod_pc' = "done" /\ mod_status' = "OK"
            THEN DOMAIN ep_factories \cup {factories'[1]}
            ELSE IF mod_pc = "idle" /\ mod_pc' = "released"
            THEN DOMAIN ep_factories \ {rel_factory'}
            ELSE DOMAIN ep_factories
       /\ (mod_pc = "idle" /\ mod_pc' = "done" /\ mod_status' = "OK")
            => factories'[1] \notin DOMAIN ep_factories
       /\ (mod_pc = "idle" /\ mod_pc' = "released")
            => rel_factory' \in DOMAIN ep_factories
       /\ DOMAIN eps' =
            IF sess_pc = "idle" /\ sess_pc' = "done" /\ ep_status' = "OK"
            THEN DOMAIN eps \cup {ep_out'}
            ELSE IF sess_pc = "idle" /\ sess_pc' = "released"
            THEN DOMAIN eps \ {rel_ep'}
            ELSE DOMAIN eps
       /\ (sess_pc = "idle" /\ sess_pc' = "done" /\ ep_status' = "OK")
            => ep_out' \notin DOMAIN eps
       /\ (sess_pc = "idle" /\ sess_pc' = "released")
            => rel_ep' \in DOMAIN eps
       /\ DOMAIN kernels' =
            IF cpl_pc = "idle" /\ cpl_pc' = "done" /\ cpl_status' = "OK"
            THEN DOMAIN kernels \cup ElementsOf(node_compute_infos')
            ELSE IF node_compute_infos # <<>> /\ node_compute_infos' = <<>>
            THEN DOMAIN kernels \ ElementsOf(node_compute_infos)
            ELSE DOMAIN kernels
       /\ (cpl_pc = "idle" /\ cpl_pc' = "done" /\ cpl_status' = "OK")
            => /\ ElementsOf(node_compute_infos') \cap DOMAIN kernels = {}
               /\ Cardinality(ElementsOf(node_compute_infos')) = Len(fused_nodes')
       /\ (node_compute_infos # <<>> /\ node_compute_infos' = <<>>)
            => /\ ElementsOf(node_compute_infos) \subseteq DOMAIN kernels
               /\ Cardinality(DOMAIN kernels) - Cardinality(DOMAIN kernels')
                    = Len(node_compute_infos)
       /\ DOMAIN states' =
            IF st_pc = "idle" /\ st_pc' = "created" /\ st_status' = "OK"
            THEN DOMAIN states \cup {st_out'}
            ELSE IF st_pc = "idle" /\ st_pc' = "released"
            THEN DOMAIN states \ {st_rel'}
            ELSE DOMAIN states
       /\ (st_pc = "idle" /\ st_pc' = "created" /\ st_status' = "OK")
            => st_out' \notin DOMAIN states
       /\ (st_pc = "idle" /\ st_pc' = "released")
            => st_rel' \in DOMAIN states
       /\ DOMAIN ep_factories' = DOMAIN host_factories'
       /\ DOMAIN eps' = DOMAIN host_sessions'
       /\ DOMAIN kernels' = ElementsOf(node_compute_infos')
       /\ (host_factories' = <<>> /\ host_sessions' = <<>> /\ node_compute_infos' = <<>>)
            => (ep_factories' = <<>> /\ eps' = <<>> /\ kernels' = <<>>
                /\ states' = <<>>)]_vars

\* C32 witness: in the middle of a release in reverse order of creation:
\* the last state has just been released while a batch of the largest size,
\* two sessions and a factory are still live.
C32_Witness ==
    /\ st_pc = "released"
    /\ states = <<>>
    /\ Len(kernels) = MaxUnits
    /\ Cardinality(DOMAIN eps) = 2
    /\ DOMAIN ep_factories # {}

\* C33: the host API tables a factory holds are the ones of the module-load
\* call that created it and never change afterwards, whatever later
\* module-load calls (successful, or refused for lack of room) and releases
\* of other factories do; a session keeps pointing at its factory; the
\* kernels of a batch copy the tables of the factory of a session the host
\* holds and keep that copy unchanged; and creating a state, releasing a
\* state and releasing kernels change no factory, no session and no table.
C33_TablesAreCaptured ==
    [][/\ (mod_pc = "idle" /\ mod_pc' = "done" /\ mod_status' = "OK")
            => /\ ep_factories'[factories'[1]].apis_.ort_api
                    = GetApi(mod_args'.ort_api_base)
               /\ ep_factories'[factories'[1]].apis_.ep_api
                    = GetEpApi(GetApi(mod_args'.ort_api_base))
               /\ ep_factories'[factories'[1]].apis_.logger
                    = mod_args'.default_logger
       /\ \A f \in DOMAIN ep_factories \cap DOMAIN ep_factories' :
            ep_factories'[f].apis_ = ep_factories[f].apis_
       /\ \A e \in DOMAIN eps \cap DOMAIN eps' :
            /\ eps'[e].factory_ = eps[e].factory_
            /\ eps'[e].factory_ \in DOMAIN ep_factories'
       /\ (cpl_pc = "idle" /\ cpl_pc' = "done" /\ cpl_status' = "OK")
            => \E this \in DOMAIN eps :
                 \A k \in DOMAIN kernels' :
                   /\ kernels'[k].ort_api = ep_factories[eps[this].factory_].apis_.ort_api
                   /\ kernels'[k].ep_api = ep_factories[eps[this].factory_].apis_.ep_api
       /\ \A k \in DOMAIN kernels \cap DOMAIN kernels' : kernels'[k] = kernels[k]
       /\ (st_pc' # st_pc \/ DOMAIN kernels' # DOMAIN kernels)
            => /\ ep_factories' = ep_factories
               /\ eps' = eps
               /\ g_apis' = g_apis]_vars

\* C33 witness: a state has been created on a kernel that carries the first
\* host's tables while the module-level tables are those of a later load
\* from another host API and one factory is live.
C33_Witness ==
    /\ st_pc = "created"
    /\ st_status = "OK"
    /\ kernels[st_kernel].ort_api = "ort_api_1"
    /\ g_apis.ort_api = "ort_api_2"
    /\ Cardinality(DOMAIN ep_factories) = 1

\* ------------------------------------------------- enumerate, array bounds

\* The CPU devices among the first n hardware devices.
CpuSeen(n) == Cardinality({j \in 1..n : j <= Len(devices) /\ devices[j] = "CPU"})

\* C34: enumerate stays inside the output array.  In every state of a call
\* the count is at most the capacity and at most the number of CPU devices
\* the loop has passed, the slots below the count hold bindings and the
\* slots from the count on are as the host supplied them, and with
\* capacity 0 the loop body never runs: no binding exists because of the
\* call and the count is 0.
C34_EnumerateStaysInBounds ==
    enum_pc \in {"loop", "done"} =>
        /\ Len(ep_devices) = max_ep_devices
        /\ num_ep_devices <= max_ep_devices
        /\ enum_i - 1 <= Len(devices)
        /\ num_ep_devices <= CpuSeen(enum_i - 1)
        /\ \A j \in 1..Len(ep_devices) :
             (j > num_ep_devices) <=> (ep_devices[j] = 0)
        /\ max_ep_devices = 0
             => /\ num_ep_devices = 0
                /\ enum_i = 1
                /\ enum_status \in {"none", "OK"}
                /\ \A id \in DOMAIN host_ep_devices :
                     /\ enum_prev.called
                     /\ \E j \in 1..Len(enum_prev.ep_devices) :
                          enum_prev.ep_devices[j] = id

\* C34 witness: a call with capacity 0 has returned success on a host whose
\* first device is a CPU, in front of which the loop stopped.
C34_Witness ==
    /\ enum_pc = "done"
    /\ max_ep_devices = 0
    /\ enum_status = "OK"
    /\ devices # <<>>
    /\ devices[1] = "CPU"

\* ---------------------------------------------------- compute, index bounds

\* The element indices the loop of a finished call has touched (counted
\* from 1): all of them, or up to the read that ended the process.
TouchedIndices ==
    IF cmp_status = Crash THEN 1..(Len(input_1.data) + 1)
    ELSE 1..LoopBound(input_0, input_1)

\* C35 as stated: every element index the loop of compute touches lies
\* inside input A, inside input B and inside the output.
C35_Original ==
    (cmp_pc = "done" /\ cmp_status \in {"OK", Crash}) =>
        \A i \in TouchedIndices :
            /\ i <= Len(input_0.data)
            /\ i <= Len(input_1.data)
            /\ i <= output.size

\* ------------------------------------------------- compute, the shape info

\* The positions of a call in what the invocation did with input_info.
CallsOf(name) == {i \in 1..Len(shape_info_calls) : shape_info_calls[i] = name}

\* The invocation got past the inputs and GetTensorTypeAndShape succeeded.
ShapeInfoObtained ==
    /\ host_fault \notin {"KernelContext_GetInput_0", "KernelContext_GetInput_1",
                          "GetTensorTypeAndShape"}
    /\ input_0 # NullValue
    /\ input_1 # NullValue

\* C36: in a finished compute call that obtained the shape info, the handle
\* was obtained once and released exactly once, on the normal path as well
\* as after a failed rank query and after a failed dimensions query, and
\* the release is the last thing done with it; a call that failed before
\* obtaining it did nothing with the handle.
C36_ShapeInfoReleasedOnce ==
    cmp_pc = "done" =>
        /\ ShapeInfoObtained
             => /\ shape_info_calls # <<>>
                /\ CallsOf("GetTensorTypeAndShape") = {1}
                /\ CallsOf("ReleaseTensorTypeAndShapeInfo") = {Len(shape_info_calls)}
                /\ (host_fault # "GetDimensionsCount")
                     <=> (CallsOf("GetDimensions") # {})
        /\ ~ShapeInfoObtained => shape_info_calls = <<>>

\* C36 witness: the dimensions query failed and the handle was released on
\* that return.
C36_Witness ==
    /\ cmp_pc = "done"
    /\ host_fault = "GetDimensions"
    /\ cmp_status = "ERR_GetDimensions"
    /\ CallsOf("ReleaseTensorTypeAndShapeInfo") = {4}

\* ------------------------------------------------------ compute, the state

\* C37: compute neither reads nor writes the invocation state.  An
\* invocation leaves every state and every kernel as it was, and what it
\* returns is fixed by its two inputs alone: a missing input gives
\* InvalidArgument and no output, two one-element vectors give success and
\* their sum, whether the state passed is fresh or was passed to earlier
\* successful or failed invocations, and whichever kernel created it.
C37_StateIsNotLookedAt ==
    [][(cmp_pc = "idle" /\ cmp_pc' = "done")
          => /\ states' = states
             /\ kernels' = kernels
             /\ cmp_state' \in DOMAIN states
             /\ IF input_0' = NullValue \/ input_1' = NullValue
                THEN /\ cmp_status' = "ORT_INVALID_ARGUMENT"
                     /\ output' = NoOutput
                ELSE /\ cmp_status' = "OK"
                     /\ output'.dims = input_0'.dims
                     /\ output'.data = <<input_0'.data[1] + input_1'.data[1]>>]_vars

\* C37 witness: an invocation has returned success on a state that another
\* kernel created and that an earlier failed invocation was passed.
C37_Witness ==
    /\ cmp_pc = "done"
    /\ cmp_status = "OK"
    /\ host_states[cmp_state].kernel # cmp_kernel
    /\ host_states[cmp_state].computes = {"OK", "failed"}

\* ------------------------------------------------ compute, the output shape

\* The product of up to two dimensions; 1 for no dimension.
ProductOf(d) ==
    IF Len(d) = 0 THEN 1 ELSE IF Len(d) = 1 THEN d[1] ELSE d[1] * d[2]

\* Both inputs are there and no host call fails.
ComputeUnfaulted ==
    cmp_pc = "done" /\ host_fault = "none" /\ input_0 # NullValue /\ input_1 # NullValue

\* C38: a successful compute has requested its output with the rank and
\* the dimensions of input 0 and has written exactly the product of those
\* dimensions many elements: one for a rank-0 input, none for an input with
\* a zero-length dimension, which still succeeds; and when the host hands
\* back no output tensor the call fails with nothing written.
C38_OutputHasShapeOfFirstInput ==
    /\ (cmp_pc = "done" /\ cmp_status = "OK")
         => /\ output # NoOutput
            /\ output.dims = input_0.dims
            /\ output.size = ProductOf(input_0.dims)
            /\ Len(output.data) = ProductOf(input_0.dims)
            /\ input_0.dims = <<>> => Len(output.data) = 1
    /\ (ComputeUnfaulted /\ \E j \in 1..Len(input_0.dims) : input_0.dims[j] = 0)
         => /\ cmp_status = "OK"
            /\ output.dims = input_0.dims
            /\ output.data = <<>>
    /\ (cmp_pc = "done" /\ host_fault = "GetOutput_null"
          /\ input_0 # NullValue /\ input_1 # NullValue)
         => /\ cmp_status = "ORT_FAIL"
            /\ output = NoOutput

\* C38 witness: a compute on a first input of shape [0, 2] and a second
\* input of another shape has succeeded.
C38_Witness ==
    /\ ComputeUnfaulted
    /\ cmp_status = "OK"
    /\ input_0.dims = <<0, 2>>
    /\ input_1.dims = <<>>

====
